---- MODULE Spec2Model ----
(***************************************************************************)
(* A model of the PyGLL parser generator and GLL runtime.                  *)
(*                                                                         *)
(* The grammar analysis (nullables, first, follow, test sets, GLL blocks)  *)
(* follows pygll/grammar/context_free_grammar.py, the parser definition    *)
(* (IR) builder follows pygll/generator/parser_generator.py, and the       *)
(* runtime follows pygll/core/base.py as driven by the statement           *)
(* interpreter of pygll/core/interpreter.py.                               *)
(*                                                                         *)
(* Input text and literals are sequences of one-character strings.         *)
(* Character-class terminals are not part of the model.                    *)
(*                                                                         *)
(* core/base.py and core/nodes.py declare the same node classes; the model *)
(* has one copy of each.  Scanner.advance, Scanner.peek_forward and        *)
(* Scanner.peek_backward are called by the interpreter but core/scanner.py *)
(* does not define them, and no class defines get_initial_grammar_slot and *)
(* get_final_slots, which AbstractParser.__init__ calls (the interpreter   *)
(* defines get_initial_slot and get_final_slot); the model gives them the  *)
(* behaviour their callers and the documentation describe.                 *)
(***************************************************************************)
EXTENDS Integers, Sequences, FiniteSets, TLC

\* gid and text: the grammar and the input of the run; todo to c_r: the
\* attributes of AbstractParser; position: the scanner's cursor; pc: where
\* the constructor is ("parsing", "done", or "raised" after an exception);
\* result: AbstractParser._result; dequeued: how many descriptors the main
\* loop has taken from todo. Where the grammar analysis is called on its own,
\* gid is the grammar, pc is "grammar" or "called" and result is what the
\* call gave. int_sets: the IntSet objects p and q and the last call made
\* on them
VARIABLES gid, text, todo, seen_descriptors, popped, gss,
          created, terminal_nodes, c_u, c_n, c_r, position, pc, result,
          dequeued, int_sets

vars == <<gid, text, todo, seen_descriptors, popped, gss,
          created, terminal_nodes, c_u, c_n, c_r, position, pc, result,
          dequeued, int_sets>>

(***************************************************************************)
(* Bounds                                                                  *)
(***************************************************************************)
\* longest input drawn from a grammar's alphabet (longer scenario inputs
\* are listed with the grammar)
MaxLen == 3

\* iterations of the main loop followed in one parse; no parse of the
\* inputs tried takes as many
MaxDequeues == 100

\* most descriptors of a parse followed with the worklist read in any
\* order
MaxDescriptorsAnyOrder == 14

(***************************************************************************)
(* Small helpers                                                           *)
(***************************************************************************)
Min(x, y) == IF x < y THEN x ELSE y

Max(x, y) == IF x > y THEN x ELSE y

\* Python's s[lo:hi] for 0 <= lo
Slice(s, lo, hi) ==
    LET top == Min(hi, Len(s))
    IN  IF lo >= top THEN <<>> ELSE SubSeq(s, lo + 1, top)

RECURSIVE JoinChars(_)
JoinChars(s) == IF s = <<>> THEN "" ELSE Head(s) \o JoinChars(Tail(s))

RECURSIVE JoinWith(_, _)
\* sep.join(list of strings)
JoinWith(l, sep) ==
    IF l = <<>> THEN ""
    ELSE IF Len(l) = 1 THEN l[1]
    ELSE l[1] \o sep \o JoinWith(Tail(l), sep)

RECURSIVE Flatten(_)
\* concatenation of a sequence of sequences
Flatten(ss) == IF ss = <<>> THEN <<>> ELSE Head(ss) \o Flatten(Tail(ss))

\* all sequences over X of length at most n
SeqsUpTo(X, n) == UNION {[1..k -> X] : k \in 0..n}

\* all orders in which the elements of a finite set can be iterated
Perms(X) ==
    {f \in [1..Cardinality(X) -> X] : \A x \in X : \E i \in DOMAIN f : f[i] = x}

EmptyFn == [x \in {} |-> 0]

\* no IntSet has been constructed
NoIntSets == [p |-> <<>>, q |-> <<>>, last |-> [call |-> "", content |-> <<>>]]

(***************************************************************************)
(* Grammar data model (context_free_grammar.py)                            *)
(***************************************************************************)
\* Terminal.literal(seq)
Lit(s) == [kind |-> "literal", name |-> "", sequence |-> s]

\* Terminal.empty()
Empty == [kind |-> "empty", name |-> "", sequence |-> <<>>]

\* Nonterminal(name)
Nonterminal(n) == [kind |-> "nonterminal", name |-> n, sequence |-> <<>>]

is_terminal(symbol) == symbol.kind # "nonterminal"

is_empty_terminal(x) == x.kind = "empty"

\* a tag map entry: key (nonterminal, alternate, position) and one tag
Tag(A, k, j, kind, lits) ==
    [nonterminal |-> A, alternate |-> k, position |-> j,
     kind |-> kind, terminals |-> lits]

\* the alternative k (0-based) of nonterminal A
Alt(g, A, k) == g.rules[A][k + 1]

\* the 0-based indices of the alternatives of A
AltIndices(g, A) == 0..(Len(g.rules[A]) - 1)

(***************************************************************************)
(* The grammars under analysis.  order lists the keys of the rules dict    *)
(* in insertion order; alphabet and extra give the inputs tried.           *)
(***************************************************************************)
ta == Lit(<<"a">>)

tb == Lit(<<"b">>)

tc == Lit(<<"c">>)

td == Lit(<<"d">>)

tx == Lit(<<"x">>)

ty == Lit(<<"y">>)

nS == Nonterminal("S")

nT == Nonterminal("T")

nA == Nonterminal("A")

nB == Nonterminal("B")

nC == Nonterminal("C")

\* S -> 'a' S | 'b' | 'a'
GRightRec ==
    [start |-> "S", order |-> <<"S">>,
     rules |-> [S |-> << <<ta, nS>>, <<tb>>, <<ta>> >>],
     tags |-> <<>>, alphabet |-> {"a", "b"}, extra |-> {<<"a", "a", "a", "b">>}]

\* S -> S 'a' | 'a'
GLeftRec ==
    [start |-> "S", order |-> <<"S">>,
     rules |-> [S |-> << <<nS, ta>>, <<ta>> >>],
     tags |-> <<>>, alphabet |-> {"a", "b"}, extra |-> {}]

\* S -> S S | 'a'
GAmbiguous ==
    [start |-> "S", order |-> <<"S">>,
     rules |-> [S |-> << <<nS, nS>>, <<ta>> >>],
     tags |-> <<>>, alphabet |-> {"a", "b"}, extra |-> {}]

\* S -> S | 'a'
GCyclic ==
    [start |-> "S", order |-> <<"S">>,
     rules |-> [S |-> << <<nS>>, <<ta>> >>],
     tags |-> <<>>, alphabet |-> {"a", "b"}, extra |-> {}]

\* S -> A S 'd' | empty ; A -> 'a' | 'c'
GNullable ==
    [start |-> "S", order |-> <<"S", "A">>,
     rules |-> [S |-> << <<nA, nS, td>>, <<Empty>> >>,
                A |-> << <<ta>>, <<tc>> >>],
     tags |-> <<>>, alphabet |-> {"a", "c", "d"},
     extra |-> {<<"a", "c", "d", "d">>, <<"c", "a", "d", "d">>}]

\* S -> A S | 'a' ; A -> empty | 'a'    (hidden left recursion)
GHidden ==
    [start |-> "S", order |-> <<"S", "A">>,
     rules |-> [S |-> << <<nA, nS>>, <<ta>> >>,
                A |-> << <<Empty>>, <<ta>> >>],
     tags |-> <<>>, alphabet |-> {"a", "b"}, extra |-> {}]

\* S -> A B 'c' ; A -> 'a' | empty ; B -> 'b' B | empty
GSequence ==
    [start |-> "S", order |-> <<"S", "A", "B">>,
     rules |-> [S |-> << <<nA, nB, tc>> >>,
                A |-> << <<ta>>, <<Empty>> >>,
                B |-> << <<tb, nB>>, <<Empty>> >>],
     tags |-> <<>>, alphabet |-> {"a", "b", "c"}, extra |-> {}]

\* S -> 'a' 'b' | 'ab' S 'c' | empty
GBlocks ==
    [start |-> "S", order |-> <<"S">>,
     rules |-> [S |-> << <<ta, tb>>, <<Lit(<<"a", "b">>), nS, tc>>,
                         <<Empty>> >>],
     tags |-> <<>>, alphabet |-> {"a", "b", "c"}, extra |-> {}]

\* test_follow.py grammar 1: S -> 'a' S | 'b' | 'c', 'a' tagged not_follow {'b'}
GNotFollowTerminal ==
    [start |-> "S", order |-> <<"S">>,
     rules |-> [S |-> << <<ta, nS>>, <<tb>>, <<tc>> >>],
     tags |-> <<Tag("S", 0, 0, "not_follow", <<tb>>)>>,
     alphabet |-> {"a", "b", "c"}, extra |-> {<<"a", "a", "a", "b">>}]

\* test_follow.py grammar 4: S -> A S | B | C, A tagged not_follow {'b'}
GNotFollowNonterminal ==
    [start |-> "S", order |-> <<"S", "A", "B", "C">>,
     rules |-> [S |-> << <<nA, nS>>, <<nB>>,
                         <<nC>> >>,
                A |-> << <<ta>> >>, B |-> << <<tb>> >>, C |-> << <<tc>> >>],
     tags |-> <<Tag("S", 0, 0, "not_follow", <<tb>>)>>,
     alphabet |-> {"a", "b", "c"}, extra |-> {<<"a", "a", "a", "b">>}]

\* test_precede.py grammar 1: S -> 'a' S | 'b' | empty, 'b' tagged
\* not_precede {'a'}
GNotPrecedeTerminal ==
    [start |-> "S", order |-> <<"S">>,
     rules |-> [S |-> << <<ta, nS>>, <<tb>>, <<Empty>> >>],
     tags |-> <<Tag("S", 1, 0, "not_precede", <<ta>>)>>,
     alphabet |-> {"a", "b"},
     extra |-> {<<"a", "a", "a", "a", "b">>}]

\* test_precede.py grammar 2: S -> 'a' S | B | empty ; B -> 'b'
GNotPrecedeNonterminal ==
    [start |-> "S", order |-> <<"S", "B">>,
     rules |-> [S |-> << <<ta, nS>>, <<nB>>, <<Empty>> >>,
                B |-> << <<tb>> >>],
     tags |-> <<Tag("S", 1, 0, "not_precede", <<ta>>)>>,
     alphabet |-> {"a", "b"},
     extra |-> {<<"a", "a", "a", "a", "b">>}]

\* test_precede.py grammar 3: S -> 'a' S | 'c' S | 'b' | empty,
\* 'b' tagged not_precede {'a', 'c'}
GNotPrecedeMultiple ==
    [start |-> "S", order |-> <<"S">>,
     rules |-> [S |-> << <<ta, nS>>, <<tc, nS>>, <<tb>>, <<Empty>> >>],
     tags |-> <<Tag("S", 2, 0, "not_precede", <<ta, tc>>)>>,
     alphabet |-> {"a", "b", "c"}, extra |-> {}]

\* test_precede.py grammar 4: S -> 'a' 'b', 'b' tagged not_precede {'a'}
GNotPrecedeLiteral ==
    [start |-> "S", order |-> <<"S">>,
     rules |-> [S |-> << <<ta, tb>> >>],
     tags |-> <<Tag("S", 0, 1, "not_precede", <<ta>>)>>,
     alphabet |-> {"a", "b"}, extra |-> {}]

\* S -> 'a' S | 'b' S | B | empty ; B -> 'b' 'b', B tagged precede {'ab', 'b'}
\* and the second S of alternative 1 tagged not_precede {'bb'}
GPrecede ==
    [start |-> "S", order |-> <<"S", "B">>,
     rules |-> [S |-> << <<ta, nS>>, <<tb, nS>>, <<nB>>,
                         <<Empty>> >>,
                B |-> << <<tb, tb>> >>],
     tags |-> <<Tag("S", 2, 0, "precede", <<Lit(<<"a", "b">>), tc>>),
                Tag("S", 1, 1, "not_precede", <<Lit(<<"b", "b">>)>>)>>,
     alphabet |-> {"a", "b"}, extra |-> {<<"a", "b", "b", "b">>}]

\* test_restriction.py grammar 1: S -> 'x' T 'y' ; T -> 'a' | 'b' | 'c',
\* T restricted by {'a', 'b'}
GRestriction ==
    [start |-> "S", order |-> <<"S", "T">>,
     rules |-> [S |-> << <<tx, nT, ty>> >>,
                T |-> << <<ta>>, <<tb>>, <<tc>> >>],
     tags |-> <<Tag("S", 0, 1, "restriction", <<ta, tb>>)>>,
     alphabet |-> {"a", "x", "y"},
     extra |-> {<<"x", "b", "y">>, <<"x", "c", "y">>}]

\* test_restriction.py grammar 2: S -> 'x' T 'y' ; T -> 'aaa' | 'bbb' | 'ccc',
\* T restricted by {'aaa', 'bbb'}
GRestrictionSequence ==
    [start |-> "S", order |-> <<"S", "T">>,
     rules |-> [S |-> << <<tx, nT, ty>> >>,
                T |-> << <<Lit(<<"a", "a", "a">>)>>,
                         <<Lit(<<"b", "b", "b">>)>>,
                         <<Lit(<<"c", "c", "c">>)>> >>],
     tags |-> <<Tag("S", 0, 1, "restriction",
                    <<Lit(<<"a", "a", "a">>), Lit(<<"b", "b", "b">>)>>)>>,
     alphabet |-> {},
     extra |-> {<<"x", "a", "a", "a", "y">>, <<"x", "b", "b", "b", "y">>,
                <<"x", "c", "c", "c", "y">>}]

\* S -> 'a' S | () : the second alternative is the sequence of length 0
GEmptyAlternative ==
    [start |-> "S", order |-> <<"S">>,
     rules |-> [S |-> << <<ta, nS>>, <<>> >>],
     tags |-> <<>>, alphabet |-> {"a", "b"}, extra |-> {}]

te == Lit(<<"e">>)

nP == Nonterminal("P")

\* test_follow.py grammar 5: S -> 'a' P T S | 'e' T 'c' ; T -> 'b' T | 'd' ;
\* P -> empty, P tagged not_follow {'b'}
GNotFollowAdvanced ==
    [start |-> "S", order |-> <<"S", "T", "P">>,
     rules |-> [S |-> << <<ta, nP, nT, nS>>, <<te, nT, tc>> >>,
                T |-> << <<tb, nT>>, <<td>> >>,
                P |-> << <<Empty>> >>],
     tags |-> <<Tag("S", 0, 1, "not_follow", <<tb>>)>>,
     alphabet |-> {},
     extra |-> {<<"a", "b", "d", "e", "d", "c">>,
                <<"a", "d", "e", "d", "c">>, <<"e", "d", "c">>}]

Grammars ==
    <<GRightRec, GLeftRec, GAmbiguous, GCyclic, GNullable, GHidden,
      GSequence, GBlocks, GNotFollowTerminal, GNotFollowNonterminal,
      GNotPrecedeTerminal, GNotPrecedeNonterminal, GNotPrecedeMultiple,
      GNotPrecedeLiteral, GPrecede, GRestriction, GRestrictionSequence,
      GEmptyAlternative, GNotFollowAdvanced>>

\* the grammars that only the specification SpecFurtherGrammars parses with
FurtherGrammars == {18, 19}

\* the inputs tried with a grammar
Inputs(g) == SeqsUpTo(g.alphabet, MaxLen) \cup g.extra

\* the tags attached to a grammar position, in list order
TagsAt(g, A, k, j) ==
    SelectSeq(g.tags, LAMBDA t : t.nonterminal = A /\ t.alternate = k
                                  /\ t.position = j)

\* the dict built by inserting the (key, value) entries of a list in order,
\* a later entry replacing an earlier one with the same key
DictLastWins(entries) ==
    [k \in {entries[i].key : i \in DOMAIN entries} |->
        LET last == CHOOSE i \in DOMAIN entries :
                        /\ entries[i].key = k
                        /\ \A j \in DOMAIN entries :
                               entries[j].key = k => j <= i
        IN  entries[last].value]

\* the dict built by inserting entries in order unless the key is present
DictFirstWins(entries) ==
    [k \in {entries[i].key : i \in DOMAIN entries} |->
        LET first_ == CHOOSE i \in DOMAIN entries :
                        /\ entries[i].key = k
                        /\ \A j \in DOMAIN entries :
                               entries[j].key = k => j >= i
        IN  entries[first_].value]

(***************************************************************************)
(* Grammar analysis (context_free_grammar.py)                              *)
(***************************************************************************)
rule_is_nullable(rule, nullable_set) ==
    \A i \in DOMAIN rule :
        IF rule[i].kind = "nonterminal"
        THEN rule[i].name \in nullable_set
        ELSE is_empty_terminal(rule[i])

RECURSIVE nullables_from(_, _)
nullables_from(g, nullable_set) ==
    LET additions == {A \in DOMAIN g.rules :
                        \E k \in DOMAIN g.rules[A] :
                            rule_is_nullable(g.rules[A][k], nullable_set)}
    IN  IF additions \subseteq nullable_set
        THEN nullable_set
        ELSE nullables_from(g, nullable_set \cup additions)

nullables(g) == nullables_from(g, {})

\* the pairs (nonterminal, symbol) of the "directly followed by" relation
build_directly_followed_by_relation(g) ==
    LET nul == nullables(g)
        continues(sym) ==
            IF sym.kind = "nonterminal" THEN sym.name \in nul
            ELSE is_empty_terminal(sym)
        visited(alt) ==
            {i \in DOMAIN alt : \A j \in 1..(i - 1) : continues(alt[j])}
        completed(alt) == \A j \in DOMAIN alt : continues(alt[j])
    IN  UNION {
            UNION {
                {<<Nonterminal(A), g.rules[A][k][i]>> :
                    i \in visited(g.rules[A][k])}
                \cup (IF completed(g.rules[A][k])
                      THEN {<<Nonterminal(A), Empty>>} ELSE {})
                : k \in DOMAIN g.rules[A]}
            : A \in DOMAIN g.rules}

RECURSIVE warshall(_, _, _)
warshall(rel, ks, elems) ==
    IF ks = {} THEN rel
    ELSE LET k == CHOOSE x \in ks : TRUE
             next_relation ==
                 rel \cup {p \in elems \X elems :
                             <<p[1], k>> \in rel /\ <<k, p[2]>> \in rel}
         IN  warshall(next_relation, ks \ {k}, elems)

transitive_closure(rel) ==
    LET elems == {p[1] : p \in rel} \cup {p[2] : p \in rel}
    IN  warshall(rel, elems, elems)

\* the __first mapping: nonterminal -> terminals related to it
first_mapping(g) ==
    LET closure == transitive_closure(build_directly_followed_by_relation(g))
    IN  [x \in {p[1] : p \in closure} |->
            {p[2] : p \in {q \in closure : q[1] = x /\ is_terminal(q[2])}}]

first(fm, x) == IF is_terminal(x) THEN {x} ELSE fm[x]

RECURSIVE first_of_sequence(_, _)
\* the loop of first_for_sequence over alternative[index:]
first_of_sequence(fm, sequence) ==
    IF sequence = <<>> THEN {Empty}
    ELSE LET addition == first(fm, Head(sequence))
         IN  IF Empty \notin addition
             THEN addition \ {Empty}
             ELSE (addition \ {Empty})
                  \cup first_of_sequence(fm, Tail(sequence))

first_for_sequence(g, fm, A, k, index) ==
    first_of_sequence(fm, Slice(Alt(g, A, k), index, Len(Alt(g, A, k))))

RECURSIVE first_of_remainder(_, _)
\* the loop over a remainder shared by follow_for_sequence and
\* __build_follow_mapping: the terminals collected, and whether the loop
\* ran to its end (its else branch is taken)
first_of_remainder(fm, remainder) ==
    IF remainder = <<>> THEN [set |-> {}, completed |-> TRUE]
    ELSE LET f == first(fm, Head(remainder))
             rest == first_of_remainder(fm, Tail(remainder))
         IN  IF Empty \notin f
             THEN [set |-> f \ {Empty}, completed |-> FALSE]
             ELSE [set |-> (f \ {Empty}) \cup rest.set,
                   completed |-> rest.completed]

\* occurrences of nonterminals on right-hand sides
Occurrences(g) ==
    {o \in UNION {UNION {{[lhs |-> A, k |-> k, i |-> i] :
                              i \in DOMAIN g.rules[A][k]}
                         : k \in DOMAIN g.rules[A]}
                  : A \in DOMAIN g.rules} :
        g.rules[o.lhs][o.k][o.i].kind = "nonterminal"}

RECURSIVE follow_fixed_point(_, _, _)
\* step 2 of __build_follow_mapping
follow_fixed_point(mapping, relations, keys) ==
    LET next == [y \in keys |->
                    mapping[y] \cup UNION {mapping[p[1]] :
                                  p \in {q \in relations : q[2] = y}}]
    IN  IF next = mapping THEN mapping
        ELSE follow_fixed_point(next, relations, keys)

\* __build_follow_mapping: the dict nonterminal name -> follow set
build_follow_mapping(g, fm) ==
    LET occ == Occurrences(g)
        sym(o) == g.rules[o.lhs][o.k][o.i]
        remainder(o) ==
            Slice(g.rules[o.lhs][o.k], o.i, Len(g.rules[o.lhs][o.k]))
        with_remainder == {o \in occ : remainder(o) # <<>>}
        follow_relations ==
            {<<o.lhs, sym(o).name>> :
                o \in {q \in occ :
                         first_of_remainder(fm, remainder(q)).completed}}
        keys == {sym(o).name : o \in with_remainder}
                \cup {p[1] : p \in follow_relations}
                \cup {p[2] : p \in follow_relations}
        initial ==
            [y \in keys |->
                UNION {first_of_remainder(fm, remainder(o)).set :
                         o \in {q \in with_remainder : sym(q).name = y}}]
    IN  follow_fixed_point(initial, follow_relations, keys)

\* follow(x): the entry of the follow mapping
follow(flw, x) == flw[x.name]

follow_for_sequence(g, fm, flw, A, k, index) ==
    LET r == first_of_remainder(
                 fm, Slice(Alt(g, A, k), index + 1, Len(Alt(g, A, k))))
    IN  IF r.completed THEN r.set \cup follow(flw, Nonterminal(A))
        ELSE r.set

test_for_sequence(g, fm, flw, A, k, index) ==
    IF Slice(Alt(g, A, k), index, Len(Alt(g, A, k))) = <<Empty>>
    THEN {Empty}
    ELSE LET f == first_for_sequence(g, fm, A, k, index)
         IN  IF \E x \in f : is_empty_terminal(x)
             THEN f \cup follow_for_sequence(g, fm, flw, A, k, index)
             ELSE f

test(fm, flw, symbol) ==
    LET f == first(fm, symbol)
    IN  IF \E x \in f : is_empty_terminal(x)
        THEN f \cup follow(flw, symbol)
        ELSE f

\* whether first(x) raises KeyError: x is a nonterminal that has no entry
\* in the __first mapping
first_raises(fm, x) == ~is_terminal(x) /\ x \notin DOMAIN fm

RECURSIVE first_of_sequence_raises(_, _)
\* whether a loop that calls first on the symbols of a sequence, up to the
\* first one whose set lacks Empty, raises
first_of_sequence_raises(fm, sequence) ==
    /\ sequence # <<>>
    /\ \/ first_raises(fm, Head(sequence))
       \/ /\ Empty \in first(fm, Head(sequence))
          /\ first_of_sequence_raises(fm, Tail(sequence))

\* whether __build_follow_mapping raises: step 1 calls first on the
\* symbols after an occurrence of a nonterminal
build_follow_mapping_raises(g, fm) ==
    \E o \in Occurrences(g) :
        first_of_sequence_raises(
            fm, Slice(g.rules[o.lhs][o.k], o.i, Len(g.rules[o.lhs][o.k])))

\* whether follow(x) raises KeyError: the mapping cannot be built, or it
\* has no entry for x
follow_raises(g, fm, x) ==
    \/ build_follow_mapping_raises(g, fm)
    \/ x.name \notin DOMAIN build_follow_mapping(g, fm)

\* whether follow_for_sequence raises
follow_for_sequence_raises(g, fm, A, k, index) ==
    LET sequence == Slice(Alt(g, A, k), index + 1, Len(Alt(g, A, k)))
    IN  \/ first_of_sequence_raises(fm, sequence)
        \/ /\ first_of_remainder(fm, sequence).completed
           /\ follow_raises(g, fm, Nonterminal(A))

\* whether test_for_sequence raises
test_for_sequence_raises(g, fm, A, k, index) ==
    LET sequence == Slice(Alt(g, A, k), index, Len(Alt(g, A, k)))
    IN  /\ sequence # <<Empty>>
        /\ \/ first_of_sequence_raises(fm, sequence)
           \/ /\ \E x \in first_of_sequence(fm, sequence) :
                     is_empty_terminal(x)
              /\ follow_for_sequence_raises(g, fm, A, k, index)

\* whether test(symbol) raises
test_raises(g, fm, symbol) ==
    \/ first_raises(fm, symbol)
    \/ /\ \E x \in first(fm, symbol) : is_empty_terminal(x)
       /\ follow_raises(g, fm, symbol)

RECURSIVE gll_blocks_from(_, _, _)
\* the while loop of compute_gll_blocks, resumed at start
gll_blocks_from(alternate, start, last_is_nonterminal) ==
    IF start < Len(alternate)
    THEN LET nts == {i \in start..(Len(alternate) - 1) :
                        ~is_terminal(alternate[i + 1])}
             stop == IF nts = {} THEN Len(alternate)
                     ELSE CHOOSE i \in nts : \A j \in nts : i <= j
         IN  IF stop = Len(alternate)
             THEN <<[index |-> start,
                     block |-> Slice(alternate, start, stop)]>>
             ELSE <<[index |-> start,
                     block |-> Slice(alternate, start, stop + 1)]>>
                  \o gll_blocks_from(alternate, stop + 1, TRUE)
    ELSE IF last_is_nonterminal
         THEN <<[index |-> Len(alternate), block |-> <<>>]>>
         ELSE <<>>

\* the (index, block) pairs yielded for an alternative
compute_gll_blocks(alternate) == gll_blocks_from(alternate, 0, FALSE)

\* the analysis results of a grammar, computed once (the code caches them)
Analysis(g) ==
    LET fm == first_mapping(g)
    IN  [nullables |-> nullables(g), first |-> fm,
         follow |-> build_follow_mapping(g, fm)]

(***************************************************************************)
(* Parser definition (abstract_parser.py).  The builder's mutations of     *)
(* the ParserDefinition are recorded as a list of events in program        *)
(* order; each table is the dict those insertions leave behind.            *)
(***************************************************************************)
\* GrammarSlotDefinition.get_slot_name
get_slot_name(nonterminal, alternate, pos, is_initial) ==
    IF is_initial /\ alternate < 0 THEN "_initial_grammar_slot"
    ELSE IF is_initial
    THEN "_initial_grammar_slot_idx" \o ToString(pos)
    ELSE IF alternate < 0 THEN "_grammar_slot_" \o nonterminal
    ELSE "_grammar_slot_" \o nonterminal \o "_alt" \o ToString(alternate)
         \o "_idx" \o ToString(pos)

\* GrammarSlotDefinition.from_key_and_grammar
from_key_and_grammar(g, nul, nonterminal_name, alternate_index, pos, is_initial) ==
    LET alternate == Alt(g, nonterminal_name, alternate_index)
        alpha == IF pos # 1 THEN FALSE
                 ELSE is_terminal(alternate[1])
                      \/ alternate[1].name \notin nul
        beta == pos = Len(alternate)
    IN  [nonterminal |-> nonterminal_name,
         alternate |-> IF is_initial THEN -1 ELSE alternate_index,
         position |-> pos, alpha |-> alpha, beta |-> beta,
         is_initial |-> is_initial]

\* GrammarSlotDefinition.name
slot_definition_name(d) ==
    get_slot_name(d.nonterminal, d.alternate, d.position, d.is_initial)

\* LiteralCheckDefinition.name
literal_check_name(literal) ==
    IF literal = <<>> THEN "terminal_test_empty"
    ELSE "terminal_test_literal__" \o JoinChars(literal)

\* AmbiguityCheckDefinition._get_name (no ranges)
ambiguity_check_name(base_name, literals, negated) ==
    "terminal_check_" \o (IF negated THEN "not_" ELSE "") \o base_name
    \o "__" \o JoinWith([i \in DOMAIN literals |-> JoinChars(literals[i])],
                        "__")

\* PrecedeCheck / FollowCheck / RestrictionCheck
AmbiguityCheckDefinition(type, slot, literals, negated, pop_check) ==
    [type |-> type, slot |-> slot, literals |-> literals,
     negated |-> negated, pop_check |-> pop_check]

\* as_pop_check of the three check classes
as_pop_check(check) ==
    CASE check.type = "precede" -> FALSE
      [] check.type = "follow" -> check.pop_check
      [] check.type = "restriction" -> TRUE

\* statements of a parse function
Stmt(op, target, name, checks, body) ==
    [op |-> op, target |-> target, name |-> name, checks |-> checks,
     body |-> body]

Disambiguate(constraint_check) ==
    Stmt("Disambiguate", "", constraint_check, {}, <<>>)

ConditionalCheck(checks, body) == Stmt("ConditionalCheck", "", "", checks, body)

InvokeNodeT(target, parent_check) == Stmt("InvokeNodeT", target, parent_check, {}, <<>>)

InvokeNodeP(target, grammar_slot) == Stmt("InvokeNodeP", target, grammar_slot, {}, <<>>)

InvokeCreate(grammar_slot) == Stmt("InvokeCreate", "", grammar_slot, {}, <<>>)

InvokeAdd(grammar_slot) == Stmt("InvokeAdd", "", grammar_slot, {}, <<>>)

CallFunction(function) == Stmt("CallFunction", "", function, {}, <<>>)

InvokePop == Stmt("InvokePop", "", "", {}, <<>>)

\* one mutation of the ParserDefinition
Event(ev, key, value) == [ev |-> ev, key |-> key, value |-> value]

\* get_and_declare_grammar_slot: the name returned, and the declaration
declare_grammar_slot(g, nul, A, k, j, is_initial) ==
    Event("slot", get_slot_name(A, k, j, is_initial),
          from_key_and_grammar(g, nul, A, k, j, is_initial))

\* get_and_declare_literal_check
declare_literal_check(literal) ==
    Event("input", literal_check_name(literal), literal)

\* _terminal_to_check: the name of the input check of a terminal
terminal_to_check(terminal) == literal_check_name(terminal.sequence)

\* _split_terminals: the literals of a tag's terminals
split_terminals(terminals) ==
    [i \in DOMAIN terminals |-> terminals[i].sequence]

RECURSIVE SetToSeq(_)
\* the elements of a finite set in some order
SetToSeq(X) ==
    IF X = {} THEN <<>>
    ELSE LET x == CHOOSE y \in X : TRUE IN <<x>> \o SetToSeq(X \ {x})

(***************************************************************************)
(* Parser generator (parser_generator.py).  Each generator returns the     *)
(* statements it produces and the declarations it makes.                   *)
(***************************************************************************)
\* _test_set_to_checks: the check names, and their declarations
test_set_to_checks(test_set) ==
    [checks |-> {terminal_to_check(t) : t \in test_set},
     events |-> SetToSeq({declare_literal_check(t.sequence) : t \in test_set})]

\* the check a tag declares at a position whose return slot is slot_name
tag_to_check(tag, slot_name, check_in_pop) ==
    LET literals == split_terminals(tag.terminals)
    IN  CASE tag.kind = "precede" ->
               AmbiguityCheckDefinition("precede", slot_name, literals,
                                        FALSE, FALSE)
          [] tag.kind = "not_precede" ->
               AmbiguityCheckDefinition("precede", slot_name, literals,
                                        TRUE, FALSE)
          [] tag.kind = "follow" ->
               AmbiguityCheckDefinition("follow", slot_name, literals,
                                        FALSE, check_in_pop)
          [] tag.kind = "not_follow" ->
               AmbiguityCheckDefinition("follow", slot_name, literals,
                                        TRUE, check_in_pop)
          [] tag.kind = "restriction" ->
               AmbiguityCheckDefinition("restriction", slot_name, literals,
                                        FALSE, FALSE)

\* the name under which a check is declared
ambiguity_name(check) ==
    ambiguity_check_name(check.type, check.literals, check.negated)

\* whether _generate_ambiguity_checks emits a Disambiguate for the tag
tag_is_inline(tag, check_in_pop) ==
    \/ tag.kind \in {"precede", "not_precede"}
    \/ tag.kind \in {"follow", "not_follow"} /\ ~check_in_pop

generate_ambiguity_checks(g, A, k, absolute_position) ==
    LET tags_at_pos == TagsAt(g, A, k, absolute_position)
        slot_name == get_slot_name(A, k, absolute_position + 1, FALSE)
        symbol_at_pos == Alt(g, A, k)[absolute_position + 1]
        check_in_pop == ~is_terminal(symbol_at_pos)
        check(i) == tag_to_check(tags_at_pos[i], slot_name, check_in_pop)
        inline == SelectSeq(tags_at_pos,
                            LAMBDA t : tag_is_inline(t, check_in_pop))
    IN  [body |-> [i \in DOMAIN inline |->
                     Disambiguate(ambiguity_name(
                         tag_to_check(inline[i], slot_name, check_in_pop)))],
         events |-> [i \in DOMAIN tags_at_pos |->
                       Event("ambiguity", ambiguity_name(check(i)), check(i))]]

\* _generate_gll_block_function_for_terminal, given the generated tail
generate_gll_block_function_for_terminal(g, an, gll_block, A, k, absolute_position, first_symbol, tail) ==
    LET head_check == terminal_to_check(gll_block[1])
        head_event == declare_literal_check(gll_block[1].sequence)
        ambiguity == generate_ambiguity_checks(g, A, k, absolute_position)
        next_slot == declare_grammar_slot(g, an.nullables, A, k,
                                          absolute_position + 1, FALSE)
        node_statements ==
            ambiguity.body
            \o <<InvokeNodeT("CR", head_check),
                 InvokeNodeP("CN", next_slot.key)>>
    IN  IF first_symbol /\ Len(gll_block) # 1
        THEN [body |-> ambiguity.body \o <<InvokeNodeT("CN", head_check)>>
                       \o tail.body,
              events |-> <<head_event>> \o ambiguity.events \o tail.events]
        ELSE IF first_symbol
        THEN [body |-> node_statements \o tail.body,
              events |-> <<head_event>> \o ambiguity.events
                         \o <<next_slot>> \o tail.events]
        ELSE [body |-> <<ConditionalCheck({head_check},
                                          node_statements \o tail.body)>>,
              events |-> <<head_event, head_event>> \o ambiguity.events
                         \o <<next_slot>> \o tail.events]

\* _generate_gll_block_function_for_nonterminal, given the generated tail
generate_gll_block_function_for_nonterminal(g, an, gll_block, A, k, absolute_position, first_symbol, tail) ==
    LET test_functions ==
            test_set_to_checks(test(an.first, an.follow, gll_block[1]))
        ambiguity == generate_ambiguity_checks(g, A, k, absolute_position)
        grammar_slot == declare_grammar_slot(g, an.nullables, A, k,
                                             absolute_position + 1, FALSE)
        inner_body ==
            ambiguity.body
            \o <<InvokeCreate(grammar_slot.key),
                 CallFunction("nonterminal_check_" \o gll_block[1].name)>>
            \o tail.body
    IN  IF first_symbol
        THEN [body |-> inner_body,
              events |-> ambiguity.events \o <<grammar_slot>>
                         \o tail.events]
        ELSE [body |-> <<ConditionalCheck(test_functions.checks,
                                          inner_body)>>,
              events |-> test_functions.events \o ambiguity.events
                         \o <<grammar_slot>> \o tail.events]

RECURSIVE generate_gll_block_function(_, _, _, _, _, _, _, _)
generate_gll_block_function(g, an, gll_block, A, k, absolute_position, first_symbol, add_pop) ==
    IF gll_block # <<>>
    THEN LET tail == generate_gll_block_function(
                         g, an, Tail(gll_block), A, k,
                         absolute_position + 1, FALSE, add_pop)
         IN  IF is_terminal(gll_block[1])
             THEN generate_gll_block_function_for_terminal(
                      g, an, gll_block, A, k, absolute_position,
                      first_symbol, tail)
             ELSE generate_gll_block_function_for_nonterminal(
                      g, an, gll_block, A, k, absolute_position,
                      first_symbol, tail)
    ELSE IF add_pop THEN [body |-> <<InvokePop>>, events |-> <<>>]
    ELSE [body |-> <<>>, events |-> <<>>]

\* _generate_start_function
generate_start_function(g, an, A) ==
    LET alternates == [i \in DOMAIN g.rules[A] |-> i - 1]
        test_set(k) == test_for_sequence(g, an.first, an.follow, A, k, 0)
        slot(k) == declare_grammar_slot(g, an.nullables, A, k, 0, FALSE)
        checks(k) == test_set_to_checks(test_set(k))
        body == [i \in DOMAIN alternates |->
                   ConditionalCheck(checks(alternates[i]).checks,
                                    <<InvokeAdd(slot(alternates[i]).key)>>)]
    IN  Flatten([i \in DOMAIN alternates |->
                   <<slot(alternates[i])>> \o checks(alternates[i]).events])
        \o <<Event("function", "nonterminal_check_" \o A, body)>>

\* the function and goto entry of one GLL block of an alternate
generate_block_events(g, an, A, k, gll_blocks, n) ==
    LET block_number == n - 1
        block_index == gll_blocks[n].index
        generated == generate_gll_block_function(
                         g, an, gll_blocks[n].block, A, k, block_index,
                         block_number = 0,
                         block_number = Len(gll_blocks) - 1)
        function_name ==
            IF block_number = 0
            THEN "nonterminal_check_" \o A \o ToString(k)
            ELSE "nonterminal_check_" \o A \o ToString(k) \o "_"
                 \o ToString(block_number)
        grammar_slot == declare_grammar_slot(g, an.nullables, A, k,
                                             block_index, FALSE)
    IN  generated.events
        \o <<Event("function", function_name, generated.body),
             grammar_slot,
             Event("goto", grammar_slot.key, function_name)>>

\* _generate_functions_for_rules
generate_functions_for_rules(g, an) ==
    LET for_alternate(A, k) ==
            LET gll_blocks == compute_gll_blocks(Alt(g, A, k))
            IN  Flatten([n \in DOMAIN gll_blocks |->
                           generate_block_events(g, an, A, k, gll_blocks, n)])
        for_nonterminal(A) ==
            generate_start_function(g, an, A)
            \o Flatten([i \in DOMAIN g.rules[A] |-> for_alternate(A, i - 1)])
    IN  Flatten([i \in DOMAIN g.order |-> for_nonterminal(g.order[i])])

\* _generate_start_nonterminal_functions
generate_start_nonterminal_functions(g, an) ==
    LET initial_slot_start ==
            declare_grammar_slot(g, an.nullables, g.start, 0, 0, TRUE)
        initial_slot_end ==
            declare_grammar_slot(g, an.nullables, g.start, 0, 1, TRUE)
    IN  <<initial_slot_start, initial_slot_end,
          Event("goto", initial_slot_start.key,
                "nonterminal_check_" \o g.start)>>

RECURSIVE declared_grammar_slots(_, _)
\* get_and_declare_grammar_slot / add_grammar_slot over the declarations:
\* a slot is added unless the requested name is present, and is stored
\* under its own name
declared_grammar_slots(events, table) ==
    IF events = <<>> THEN table
    ELSE LET e == Head(events)
         IN  declared_grammar_slots(
                 Tail(events),
                 IF e.key \in DOMAIN table THEN table
                 ELSE (slot_definition_name(e.value) :> e.value) @@ table)

EventsOf(events, ev) == SelectSeq(events, LAMBDA e : e.ev = ev)

\* the ParserDefinition that the declarations made, in order, leave behind
definition_of(events) ==
    [initial_grammar_slot_start |-> events[1].key,
     initial_grammar_slot_end |-> events[2].key,
     grammar_slots |->
         declared_grammar_slots(EventsOf(events, "slot"), EmptyFn),
     input_checks |-> DictFirstWins(EventsOf(events, "input")),
     parse_functions |-> DictLastWins(EventsOf(events, "function")),
     ambiguity_checks |-> DictFirstWins(EventsOf(events, "ambiguity")),
     goto |-> DictLastWins(EventsOf(events, "goto"))]

\* the declarations generate_parser makes, in program order
generate_events(g, an) ==
    generate_start_nonterminal_functions(g, an)
    \o generate_functions_for_rules(g, an)

\* generate_parser: the ParserDefinition of a grammar and its tags
generate_parser(g) == definition_of(generate_events(g, Analysis(g)))

\* whether generate_parser raises: the start nonterminal has no rule or no
\* symbol where its initial slots are declared (KeyError, IndexError), or
\* a test set that a start function or a block function asks for raises
generate_parser_raises(g) ==
    \/ g.start \notin DOMAIN g.rules
    \/ g.rules[g.start] = <<>>
    \/ g.rules[g.start][1] = <<>>
    \/ \E A \in DOMAIN g.rules :
           \E k \in DOMAIN g.rules[A] :
               \/ test_for_sequence_raises(g, first_mapping(g), A, k - 1, 0)
               \/ \E j \in 2..Len(g.rules[A][k]) :
                      /\ ~is_terminal(g.rules[A][k][j])
                      /\ test_raises(g, first_mapping(g), g.rules[A][k][j])

\* the parser definitions of the grammars under analysis
Definitions == [i \in DOMAIN Grammars |-> generate_parser(Grammars[i])]

(***************************************************************************)
(* Runtime data (core/nodes.py, core/base.py)                              *)
(***************************************************************************)
GrammarSlot(nonterminal, alternate, pos, alpha_is_special, beta_is_special) ==
    [nonterminal |-> nonterminal, alternate |-> alternate,
     position |-> pos, alpha_is_special |-> alpha_is_special,
     beta_is_special |-> beta_is_special]

\* AbstractParser.NULL_SLOT
NULL_SLOT == GrammarSlot("$null", 0, 0, FALSE, FALSE)

GSSNodeReference(slot, pos) == [slot |-> slot, position |-> pos]

Descriptor(slot, stack, pos, node) ==
    [slot |-> slot, stack |-> stack, position |-> pos, node |-> node]

\* nodes are records of one shape; kind tells the class
Node(kind, left_extent, right_extent, symbol, slot, is_nonterminal_node) ==
    [kind |-> kind, left_extent |-> left_extent,
     right_extent |-> right_extent, symbol |-> symbol, slot |-> slot,
     is_nonterminal_node |-> is_nonterminal_node]

InitialNode(left_extent, right_extent) ==
    Node("initial", left_extent, right_extent, <<>>, NULL_SLOT, FALSE)

TerminalNode(left_extent, right_extent, symbol) ==
    Node("terminal", left_extent, right_extent, symbol, NULL_SLOT, FALSE)

IntermediateNode(left_extent, right_extent, is_nonterminal_node, slot) ==
    Node("intermediate", left_extent, right_extent, <<>>, slot,
         is_nonterminal_node)

\* Python's None where a node is expected
None == Node("none", 0, 0, <<>>, NULL_SLOT, FALSE)

\* a variant of the key that compares the whole slot of a nonterminal node
IntermediateNodeKey_by_slot(slot, is_nonterminal_node, left_extent, right_extent) ==
    [slot |-> slot, is_nonterminal_node |-> is_nonterminal_node,
     left_extent |-> left_extent, right_extent |-> right_extent]

\* a variant of the key that leaves the left extent out
IntermediateNodeKey_by_end(slot, is_nonterminal_node, left_extent, right_extent) ==
    [slot |-> IF is_nonterminal_node
              THEN GrammarSlot(slot.nonterminal, -1, -1, FALSE, FALSE)
              ELSE slot,
     is_nonterminal_node |-> is_nonterminal_node,
     left_extent |-> 0, right_extent |-> right_extent]

\* IntermediateNodeKey with its __eq__ and __hash__: two keys are equal
\* iff these records are equal (a nonterminal node's key keeps only the
\* nonterminal of its slot)
IntermediateNodeKey(slot, is_nonterminal_node, left_extent, right_extent) ==
    [slot |-> IF is_nonterminal_node
              THEN GrammarSlot(slot.nonterminal, -1, -1, FALSE, FALSE)
              ELSE slot,
     is_nonterminal_node |-> is_nonterminal_node,
     left_extent |-> left_extent, right_extent |-> right_extent]

\* IntermediateNode.key
node_key(node) ==
    IntermediateNodeKey(node.slot, node.is_nonterminal_node,
                        node.left_extent, node.right_extent)

\* a variant of the key of a packed node that leaves out the split
PackedNodeKey_by_slot(slot, split) == [slot |-> slot, split |-> 0]

PackedNodeKey(slot, split) == [slot |-> slot, split |-> split]

PackedNode(left_extent, right_extent, slot, split, left, right) ==
    [left_extent |-> left_extent, right_extent |-> right_extent,
     slot |-> slot, split |-> split, left |-> left, right |-> right]

\* AbstractParser.root
root == GSSNodeReference(NULL_SLOT, 0)

\* _InterpretedParser.__definition_to_slot
definition_to_slot(d) ==
    GrammarSlot(d.nonterminal, d.alternate, d.position, d.alpha, d.beta)

\* _InterpretedParser.__slot_to_name
slot_to_name(slot) ==
    get_slot_name(slot.nonterminal, slot.alternate, slot.position,
                  slot.alternate < 0)

(***************************************************************************)
(* Scanner (core/scanner.py).  The parser state st carries the scanner's   *)
(* source and position next to the parser's own attributes.                *)
(***************************************************************************)
\* a variant of has_next that searches to the end of the source:
\* str.find(pattern, pos) != -1
has_next_unanchored(st, pattern) ==
    \E i \in st.position..Len(st.source) :
        Slice(st.source, i, i + Len(pattern)) = pattern

\* Scanner.has_next: str.find(pattern, pos, pos + len(pattern)) != -1
has_next(st, pattern) ==
    /\ st.position <= Len(st.source)
    /\ Slice(st.source, st.position, st.position + Len(pattern)) = pattern

\* Scanner.peek
peek(st, length) == Slice(st.source, st.position, st.position + length)

\* Scanner.advance(n): the cursor moves n code points forward
advance(st, n) == [st EXCEPT !.position = @ + n]

\* Scanner.peek_forward(n): the next n code points from the cursor
peek_forward(st, length) ==
    Slice(st.source, st.position, st.position + length)

\* Scanner.peek_backward(n): the n code points ending at the cursor
peek_backward(st, length) ==
    Slice(st.source, Max(0, st.position - length), st.position)

(***************************************************************************)
(* Runtime operations (core/base.py).  Each takes the parser state st and  *)
(* returns the state it leaves; a returned value is left in st.ret.        *)
(***************************************************************************)
\* a variant of add that appends the descriptor whether seen or not
add_unchecked(st, g, stack, pos, s) ==
    LET descriptor == Descriptor(g, stack, pos, s)
    IN  [st EXCEPT !.seen_descriptors = @ \cup {descriptor},
                   !.todo = Append(@, descriptor)]

\* AbstractParser.add
add(st, g, stack, pos, s) ==
    LET descriptor == Descriptor(g, stack, pos, s)
    IN  IF descriptor \notin st.seen_descriptors
        THEN [st EXCEPT !.seen_descriptors = @ \cup {descriptor},
                        !.todo = Append(@, descriptor)]
        ELSE st

\* a variant of get_node_t whose node ends one position further
get_node_t_wide(st, char) ==
    LET node == TerminalNode(st.position, st.position + Len(char) + 1, char)
    IN  [st EXCEPT !.terminal_nodes = @ \cup {node}, !.ret = node]

\* AbstractParser.get_node_t
get_node_t(st, char) ==
    LET node == TerminalNode(st.position, st.position + Len(char), char)
    IN  [st EXCEPT !.terminal_nodes = @ \cup {node}, !.ret = node]

\* a variant of get_node_p without the case of the special slot
get_node_p_always_packing(st, slot, left, right) ==
    LET left_extent == IF left.kind # "initial" THEN left.left_extent
                       ELSE right.left_extent
        intermediate_node ==
            IntermediateNode(left_extent, right.right_extent,
                             slot.beta_is_special, slot)
        key == node_key(intermediate_node)
        entry == IF key \in DOMAIN st.created THEN st.created[key]
                 ELSE [node |-> intermediate_node, children |-> EmptyFn]
        split == IF left.kind # "initial" THEN left.right_extent
                 ELSE right.left_extent
        packed_key == PackedNodeKey(slot, split)
        packed_node ==
            PackedNode(left_extent, right.right_extent, slot, split,
                       IF left.kind # "initial" THEN left ELSE None, right)
        children == IF packed_key \notin DOMAIN entry.children
                    THEN (packed_key :> packed_node) @@ entry.children
                    ELSE entry.children
    IN  [st EXCEPT !.created = (key :> [entry EXCEPT !.children = children])
                               @@ @,
                   !.ret = entry.node]

\* AbstractParser.get_node_p
get_node_p(st, slot, left, right) ==
    IF slot.alpha_is_special /\ ~slot.beta_is_special
    THEN [st EXCEPT !.ret = right]
    ELSE
    LET left_extent == IF left.kind # "initial" THEN left.left_extent
                       ELSE right.left_extent
        intermediate_node ==
            IntermediateNode(left_extent, right.right_extent,
                             slot.beta_is_special, slot)
        key == node_key(intermediate_node)
        \* created.setdefault(key, intermediate_node)
        entry == IF key \in DOMAIN st.created THEN st.created[key]
                 ELSE [node |-> intermediate_node, children |-> EmptyFn]
        split == IF left.kind # "initial" THEN left.right_extent
                 ELSE right.left_extent
        packed_key == PackedNodeKey(slot, split)
        packed_node ==
            PackedNode(left_extent, right.right_extent, slot, split,
                       IF left.kind # "initial" THEN left ELSE None, right)
        children == IF packed_key \notin DOMAIN entry.children
                    THEN (packed_key :> packed_node) @@ entry.children
                    ELSE entry.children
    IN  [st EXCEPT !.created = (key :> [entry EXCEPT !.children = children])
                               @@ @,
                   !.ret = entry.node,
                   \* not a field of the parser: whether the child found
                   \* under the key is the packed node of this call
                   !.repacked =
                       IF packed_key \in DOMAIN entry.children
                       THEN @ \cup {entry.children[packed_key] = packed_node}
                       ELSE @]

RECURSIVE create_popped_at_scanner(_, _, _)
\* a variant of the loop of create that adds each descriptor at the
\* position of the scanner instead of the right extent of the popped node
create_popped_at_scanner(st, slot, zs) ==
    IF zs = <<>> THEN st
    ELSE LET z == Head(zs)
             with_node == get_node_p(st, slot, st.c_n, z)
         IN  create_popped_at_scanner(
                 add(with_node, slot, st.c_u, st.position, with_node.ret),
                 slot, Tail(zs))

RECURSIVE create_popped(_, _, _)
\* the loop of create over the nodes popped from ref
create_popped(st, slot, zs) ==
    IF zs = <<>> THEN st
    ELSE LET z == Head(zs)
             with_node == get_node_p(st, slot, st.c_n, z)
         IN  create_popped(
                 add(with_node, slot, st.c_u, z.right_extent, with_node.ret),
                 slot, Tail(zs))

\* a variant of create that does not replay the nodes popped from ref
create_without_replay(st, slot) ==
    LET ref == GSSNodeReference(slot, st.position)
        edges == IF ref \notin DOMAIN st.gss.edges
                 THEN (ref :> {}) @@ st.gss.edges
                 ELSE st.gss.edges
    IN  [st EXCEPT !.gss = [edges |-> (ref :> (edges[ref] \cup {st.c_u}))
                                      @@ edges,
                            edge_labels |->
                                IF st.c_u \in edges[ref] THEN @.edge_labels
                                ELSE (<<ref, st.c_u>> :> st.c_n)
                                     @@ @.edge_labels],
                   !.ret = ref]

\* AbstractParser.create
create(st, slot) ==
    LET ref == GSSNodeReference(slot, st.position)
        \* gss.add_node
        edges == IF ref \notin DOMAIN st.gss.edges
                 THEN (ref :> {}) @@ st.gss.edges
                 ELSE st.gss.edges
        \* gss.add_edge
        with_edge ==
            [st EXCEPT !.gss = [edges |-> (ref :> (edges[ref] \cup {st.c_u}))
                                          @@ edges,
                                edge_labels |-> (<<ref, st.c_u>> :> st.c_n)
                                                @@ st.gss.edge_labels],
                       \* popped is a defaultdict: reading popped[ref]
                       \* inserts an empty list
                       !.popped = IF ref \in DOMAIN @ THEN @
                                  ELSE (ref :> <<>>) @@ @]
        looped == create_popped(with_edge, slot, with_edge.popped[ref])
    IN  IF st.c_u \notin edges[ref]
        THEN [looped EXCEPT !.ret = ref]
        ELSE [st EXCEPT !.gss.edges = edges, !.ret = ref,
                        \* not a field of the parser: whether the label
                        \* of the edge found is the c_n of this call
                        !.relabelled =
                            @ \cup {st.gss.edge_labels[<<ref, st.c_u>>]
                                       = st.c_n}]

RECURSIVE pop_edges(_, _)
\* the loop of pop over the edges of c_u, taken in the order targets
pop_edges(st, targets) ==
    IF targets = <<>> THEN st
    ELSE LET to == Head(targets)
             label == st.gss.edge_labels[<<st.c_u, to>>]
             with_node == get_node_p(st, st.c_u.slot, label, st.c_n)
         IN  pop_edges(
                 add(with_node, st.c_u.slot, to, st.position, with_node.ret),
                 Tail(targets))

\* a variant of pop that records the node popped and returns along no edge
pop_without_return(st, order) ==
    IF st.c_u # root
    THEN [st EXCEPT !.popped =
             (st.c_u :> Append(IF st.c_u \in DOMAIN @ THEN @[st.c_u]
                               ELSE <<>>, st.c_n)) @@ @]
    ELSE st

\* AbstractParser.pop; order is the order in which the set of edges of
\* c_u is iterated
pop(st, order) ==
    IF st.c_u # root
    THEN pop_edges(
             [st EXCEPT !.popped =
                 (st.c_u :> Append(IF st.c_u \in DOMAIN @ THEN @[st.c_u]
                                   ELSE <<>>, st.c_n)) @@ @],
             order)
    ELSE st

(***************************************************************************)
(* Statement interpreter (core/interpreter.py)                             *)
(***************************************************************************)
\* _InterpretedParser.__emulate_input_check (literal checks)
emulate_input_check(def, st, check_name) ==
    has_next(st, def.input_checks[check_name])

\* the scanner method passed as peek_function, applied
peek_with(peek_function, st, length) ==
    IF peek_function = "peek_backward" THEN peek_backward(st, length)
    ELSE peek_forward(st, length)

\* _InterpretedParser.__emulate_range_or_literal_check (no ranges): the
\* literals are bucketed by length and each bucket compared with a peek of
\* that length
emulate_range_or_literal_check(st, literals, negated, peek_function) ==
    IF \E i \in DOMAIN literals :
           peek_with(peek_function, st, Len(literals[i])) = literals[i]
    THEN ~negated
    ELSE negated

\* whether __emulate_disambiguation_check raises NotImplementedError
disambiguation_check_raises(def, check_name) ==
    LET check == def.ambiguity_checks[check_name]
    IN  \/ check.type = "restriction"
        \/ check.type = "follow" /\ check.pop_check

\* a variant of the check that reads forward for every kind of check
emulate_disambiguation_check_forward(def, st, check_name) ==
    emulate_range_or_literal_check(
        st, def.ambiguity_checks[check_name].literals,
        def.ambiguity_checks[check_name].negated, "peek_forward")

\* _InterpretedParser.__emulate_disambiguation_check
emulate_disambiguation_check(def, st, check_name) ==
    LET check == def.ambiguity_checks[check_name]
    IN  IF check.type = "precede"
        THEN emulate_range_or_literal_check(st, check.literals,
                                            check.negated, "peek_backward")
        ELSE emulate_range_or_literal_check(st, check.literals,
                                            check.negated, "peek_forward")

\* _InterpretedParser.__emulate_pop_check: the exception raised, if any,
\* and the value returned
emulate_pop_check(def, st, check_name) ==
    LET check == def.ambiguity_checks[check_name]
    IN  IF check.type = "follow" /\ check.pop_check
        THEN [raises |-> "",
              value |-> emulate_range_or_literal_check(
                            st, check.literals, check.negated,
                            "peek_forward")]
        ELSE IF check.type = "restriction"
        THEN [raises |-> "NotImplementedError", value |-> FALSE]
        ELSE [raises |-> "ValueError", value |-> FALSE]

\* the goto table the running parser consults: the generated entries, the
\* entry of the initial slot being found under the slot's runtime name
goto_table(def) ==
    ("_initial_grammar_slot" :> def.goto[def.initial_grammar_slot_start])
    @@ def.goto

\* whether _InterpretedParser.__init__ raises KeyError: an in-pop check
\* names a slot that was never declared
construction_raises(def) ==
    \E name \in DOMAIN def.ambiguity_checks :
        /\ as_pop_check(def.ambiguity_checks[name])
        /\ def.ambiguity_checks[name].slot \notin DOMAIN def.grammar_slots

\* _InterpretedParser.get_ambiguity_checks_for_slot over the table that
\* __init__ builds: the in-pop checks registered against a slot
get_ambiguity_checks_for_slot(def, slot) ==
    {name \in DOMAIN def.ambiguity_checks :
        /\ as_pop_check(def.ambiguity_checks[name])
        /\ def.ambiguity_checks[name].slot \in DOMAIN def.grammar_slots
        /\ definition_to_slot(
               def.grammar_slots[def.ambiguity_checks[name].slot]) = slot}

RECURSIVE emulate_with(_, _, _, _, _)
\* the statements run with another reading of a disambiguate that
\* evaluates to false: with mode "abort_function" nothing more runs until
\* the function entered by goto has returned, with mode "continue" the
\* statements after it run as if it had held
emulate_with(mode, def, st, instructions, order) ==
    IF instructions = <<>> \/ st.error # "" THEN st
    ELSE
    LET instruction == Head(instructions)
        rest == Tail(instructions)
        op == instruction.op
    IN  CASE op = "Disambiguate" ->
               IF disambiguation_check_raises(def, instruction.name)
               THEN [st EXCEPT !.error = "NotImplementedError"]
               ELSE IF emulate_disambiguation_check(def, st,
                                                    instruction.name)
               THEN emulate_with(mode, def, st, rest, order)
               ELSE IF mode = "abort_function"
               THEN [st EXCEPT !.error = "$abort"]
               ELSE emulate_with(mode, def, st, rest, order)
          [] op = "ConditionalCheck" ->
               IF \E check \in instruction.checks :
                      emulate_input_check(def, st, check)
               THEN emulate_with(mode, def,
                            emulate_with(mode, def, st, instruction.body, order),
                            rest, order)
               ELSE emulate_with(mode, def, st, rest, order)
          [] op = "InvokeNodeT" ->
               LET check_text == def.input_checks[instruction.name]
                   with_node == get_node_t(st, check_text)
                   assigned ==
                       IF instruction.target = "CN"
                       THEN [with_node EXCEPT !.c_n = with_node.ret]
                       ELSE [with_node EXCEPT !.c_r = with_node.ret]
               IN  emulate_with(mode, def, advance(assigned, Len(check_text)),
                           rest, order)
          [] op = "InvokeNodeP" ->
               LET slot == definition_to_slot(
                               def.grammar_slots[instruction.name])
                   with_node == get_node_p(st, slot, st.c_n, st.c_r)
               IN  emulate_with(mode, def, [with_node EXCEPT !.c_n = with_node.ret],
                           rest, order)
          [] op = "InvokeCreate" ->
               LET slot == definition_to_slot(
                               def.grammar_slots[instruction.name])
                   created_ref == create(st, slot)
               IN  emulate_with(mode, def,
                           [created_ref EXCEPT !.c_u = created_ref.ret],
                           rest, order)
          [] op = "InvokeAdd" ->
               LET slot == definition_to_slot(
                               def.grammar_slots[instruction.name])
               IN  emulate_with(mode, def,
                           add(st, slot, st.c_u, st.position,
                               InitialNode(0, 0)),
                           rest, order)
          [] op = "CallFunction" ->
               \* goto_name
               emulate_with(mode, def,
                       emulate_with(mode, def, st,
                               def.parse_functions[instruction.name], order),
                       rest, order)
          [] op = "InvokePop" ->
               emulate_with(mode, def, pop(st, order), rest, order)

\* a variant of __emulate in which a failed disambiguate aborts nothing
emulate_continuing(def, st, instructions, order) ==
    emulate_with("continue", def, st, instructions, order)

RECURSIVE emulate(_, _, _, _)
\* _InterpretedParser.__emulate
emulate(def, st, instructions, order) ==
    IF instructions = <<>> \/ st.error # "" THEN st
    ELSE
    LET instruction == Head(instructions)
        rest == Tail(instructions)
        op == instruction.op
    IN  CASE op = "Disambiguate" ->
               IF disambiguation_check_raises(def, instruction.name)
               THEN [st EXCEPT !.error = "NotImplementedError"]
               ELSE IF emulate_disambiguation_check(def, st,
                                                    instruction.name)
               THEN emulate(def, st, rest, order)
               ELSE st
          [] op = "ConditionalCheck" ->
               IF \E check \in instruction.checks :
                      emulate_input_check(def, st, check)
               THEN emulate(def,
                            emulate(def, st, instruction.body, order),
                            rest, order)
               ELSE emulate(def, st, rest, order)
          [] op = "InvokeNodeT" ->
               LET check_text == def.input_checks[instruction.name]
                   with_node == get_node_t(st, check_text)
                   assigned ==
                       IF instruction.target = "CN"
                       THEN [with_node EXCEPT !.c_n = with_node.ret]
                       ELSE [with_node EXCEPT !.c_r = with_node.ret]
               IN  emulate(def, advance(assigned, Len(check_text)),
                           rest, order)
          [] op = "InvokeNodeP" ->
               LET slot == definition_to_slot(
                               def.grammar_slots[instruction.name])
                   with_node == get_node_p(st, slot, st.c_n, st.c_r)
               IN  emulate(def, [with_node EXCEPT !.c_n = with_node.ret],
                           rest, order)
          [] op = "InvokeCreate" ->
               LET slot == definition_to_slot(
                               def.grammar_slots[instruction.name])
                   created_ref == create(st, slot)
               IN  emulate(def,
                           [created_ref EXCEPT !.c_u = created_ref.ret],
                           rest, order)
          [] op = "InvokeAdd" ->
               LET slot == definition_to_slot(
                               def.grammar_slots[instruction.name])
               IN  emulate(def,
                           add(st, slot, st.c_u, st.position,
                               InitialNode(0, 0)),
                           rest, order)
          [] op = "CallFunction" ->
               \* goto_name
               emulate(def,
                       emulate(def, st,
                               def.parse_functions[instruction.name], order),
                       rest, order)
          [] op = "InvokePop" ->
               emulate(def, pop(st, order), rest, order)

\* _InterpretedParser.goto
goto(def, st, slot, order) ==
    LET name == slot_to_name(slot)
    IN  IF name \notin DOMAIN goto_table(def)
        THEN [st EXCEPT !.error = "KeyError"]
        ELSE emulate(def, st, def.parse_functions[goto_table(def)[name]],
                     order)

(***************************************************************************)
(* The parser as a state machine (AbstractParser.__init__)                 *)
(***************************************************************************)
\* get_initial_grammar_slot: the slot of the initial descriptor
get_initial_grammar_slot(g) == GrammarSlot(g.start, -1, 0, FALSE, FALSE)

\* get_final_slots: slots of the start nonterminal
get_final_slots(g) == <<GrammarSlot(g.start, -1, 1, FALSE, FALSE)>>

\* the parser's attributes and the scanner, as one record
ParserState ==
    [source |-> text, position |-> position, todo |-> todo,
     seen_descriptors |-> seen_descriptors, popped |-> popped, gss |-> gss,
     created |-> created, terminal_nodes |-> terminal_nodes,
     c_u |-> c_u, c_n |-> c_n, c_r |-> c_r, ret |-> None, error |-> "",
     repacked |-> {}, relabelled |-> {}]

\* the parser state when the main loop is entered: the defaults, and the
\* initial descriptor added
initial_state(g, w) ==
    [source |-> w, position |-> 0,
     todo |-> <<Descriptor(get_initial_grammar_slot(g), root, 0,
                           InitialNode(0, 0))>>,
     seen_descriptors |-> {Descriptor(get_initial_grammar_slot(g), root, 0,
                                      InitialNode(0, 0))},
     popped |-> EmptyFn,
     gss |-> [edges |-> EmptyFn, edge_labels |-> EmptyFn],
     created |-> EmptyFn, terminal_nodes |-> {},
     c_u |-> root, c_n |-> InitialNode(0, 0), c_r |-> None,
     ret |-> None, error |-> "", repacked |-> {}, relabelled |-> {}]

\* the attributes and the scanner hold the values of the record st
holds(st) ==
    /\ todo = st.todo
    /\ seen_descriptors = st.seen_descriptors
    /\ popped = st.popped
    /\ gss = st.gss
    /\ created = st.created
    /\ terminal_nodes = st.terminal_nodes
    /\ c_u = st.c_u
    /\ c_n = st.c_n
    /\ c_r = st.c_r
    /\ position = st.position

\* a parser was constructed for grammar i and input w
constructed(i, w) ==
    /\ gid = i
    /\ text = w
    /\ holds(initial_state(Grammars[i], w))
    /\ pc = IF construction_raises(Definitions[i])
            THEN "raised" ELSE "parsing"
    /\ result = None
    /\ dequeued = 0
    /\ int_sets = NoIntSets

\* a parser is constructed for one of the grammars and one of its inputs
Init ==
    \E i \in DOMAIN Grammars \ FurtherGrammars :
        \E w \in Inputs(Grammars[i]) : constructed(i, w)

\* a variant of the iteration that restores the stack and the position of
\* the descriptor and keeps the c_n of the iteration before
loop_iteration_keeping_c_n(def, st, order) ==
    LET descriptor == Head(st.todo)
    IN  goto(def,
             [st EXCEPT !.todo = Tail(@), !.c_u = descriptor.stack,
                        !.position = descriptor.position],
             descriptor.slot, order)

\* a variant of the iteration that reads the first descriptor of todo and
\* leaves it there
loop_iteration_without_dequeue(def, st, order) ==
    LET descriptor == Head(st.todo)
    IN  goto(def,
             [st EXCEPT !.c_n = descriptor.node,
                        !.c_u = descriptor.stack,
                        !.position = descriptor.position],
             descriptor.slot, order)

\* the parser state after one iteration of the main loop, the edges of the
\* descriptor's stack being iterated in the given order should it pop
loop_iteration(def, st, order) ==
    LET descriptor == Head(st.todo)
    IN  goto(def,
             [st EXCEPT !.todo = Tail(@), !.c_n = descriptor.node,
                        !.c_u = descriptor.stack,
                        !.position = descriptor.position],
             descriptor.slot, order)

RECURSIVE reaches_pop(_, _, _)
\* whether the statements, or a function they call, hold an InvokePop
reaches_pop(def, instructions, visited) ==
    \E i \in DOMAIN instructions :
        LET instruction == instructions[i]
        IN  \/ instruction.op = "InvokePop"
            \/ /\ instruction.op = "ConditionalCheck"
               /\ reaches_pop(def, instruction.body, visited)
            \/ /\ instruction.op = "CallFunction"
               /\ instruction.name \notin visited
               /\ instruction.name \in DOMAIN def.parse_functions
               /\ reaches_pop(def, def.parse_functions[instruction.name],
                              visited \cup {instruction.name})

\* the orders in which pop can come to iterate the edges of the stack of
\* the next descriptor (a set has no fixed iteration order); one order
\* when the descriptor's function holds no pop
edge_orders(def, st) ==
    LET descriptor == Head(st.todo)
        name == slot_to_name(descriptor.slot)
    IN  IF /\ descriptor.stack \in DOMAIN st.gss.edges
           /\ name \in DOMAIN goto_table(def)
           /\ reaches_pop(def, def.parse_functions[goto_table(def)[name]],
                          {})
        THEN Perms(st.gss.edges[descriptor.stack])
        ELSE {<<>>}

\* the attributes and the scanner take the values of the record st
becomes(st) ==
    /\ todo' = st.todo
    /\ seen_descriptors' = st.seen_descriptors
    /\ popped' = st.popped
    /\ gss' = st.gss
    /\ created' = st.created
    /\ terminal_nodes' = st.terminal_nodes
    /\ c_u' = st.c_u
    /\ c_n' = st.c_n
    /\ c_r' = st.c_r
    /\ position' = st.position
    /\ pc' = IF st.error # "" THEN "raised" ELSE "parsing"

\* the attributes and the scanner after one iteration from st, for each
\* order in which pop can iterate the edges
iterates(def, st) ==
    \E order \in edge_orders(def, st) :
        becomes(loop_iteration(def, st, order))

\* one iteration of the main loop
Step ==
    /\ pc = "parsing"
    /\ todo # <<>>
    /\ dequeued < MaxDequeues
    /\ dequeued' = dequeued + 1
    /\ iterates(Definitions[gid], ParserState)
    /\ UNCHANGED <<gid, text, result, int_sets>>

\* a variant that accepts a start node of any right extent
final_result_any_extent(g, source, created_nodes) ==
    LET keys == {key \in DOMAIN created_nodes :
                    /\ key.is_nonterminal_node
                    /\ key.slot.nonterminal = g.start
                    /\ key.left_extent = 0}
    IN  IF keys = {} THEN None
        ELSE created_nodes[CHOOSE key \in keys : TRUE].node

\* _result: created.get(key, None)
final_result(g, source, created_nodes) ==
    LET key == IntermediateNodeKey(get_final_slots(g)[1], TRUE, 0,
                                   Len(source))
    IN  IF key \in DOMAIN created_nodes THEN created_nodes[key].node
        ELSE None

\* the worklist is empty: the outcome is read off created
Finish ==
    /\ pc = "parsing"
    /\ todo = <<>>
    /\ result' = final_result(Grammars[gid], text, created)
    /\ pc' = "done"
    /\ UNCHANGED <<gid, text, todo, seen_descriptors, popped, gss, created,
                   terminal_nodes, c_u, c_n, c_r, position, dequeued,
                   int_sets>>

Next == Step \/ Finish

Spec == Init /\ [][Next]_vars

\* a parser is constructed for any of the grammars, those of
\* FurtherGrammars included, and one of its inputs
InitFurtherGrammars ==
    \E i \in DOMAIN Grammars :
        \E w \in Inputs(Grammars[i]) : constructed(i, w)

SpecFurtherGrammars == InitFurtherGrammars /\ [][Next]_vars

(***************************************************************************)
(* Reference semantics: the language of a grammar, computed from the       *)
(* rules alone as the least fixed point of the spans each nonterminal      *)
(* derives.  The parser is checked against it.                             *)
(***************************************************************************)
\* whether the precede and not_precede tags at (A, k, j) let the symbol at
\* j start at input position p
precede_allows(g, w, A, k, j, p) ==
    \A i \in DOMAIN g.tags :
        LET t == g.tags[i]
            ends_with ==
                \E m \in DOMAIN t.terminals :
                    /\ Len(t.terminals[m].sequence) <= p
                    /\ Slice(w, p - Len(t.terminals[m].sequence), p)
                           = t.terminals[m].sequence
        IN  (t.nonterminal = A /\ t.alternate = k /\ t.position = j) =>
                CASE t.kind = "not_precede" -> ~ends_with
                  [] t.kind = "precede" -> ends_with
                  [] OTHER -> TRUE

RECURSIVE sequence_ends(_, _, _, _, _, _, _, _)
\* the input positions where the symbols at the indices j to stop - 1 of
\* alternative k of A can end when they start at p, given the spans known
\* so far
sequence_ends(g, w, known, A, k, j, stop, p) ==
    IF j >= stop THEN {p}
    ELSE IF ~precede_allows(g, w, A, k, j, p) THEN {}
    ELSE LET x == Alt(g, A, k)[j + 1]
             next == IF x.kind = "nonterminal"
                     THEN {q \in p..Len(w) : <<x.name, p, q>> \in known}
                     ELSE IF Slice(w, p, p + Len(x.sequence)) = x.sequence
                          THEN {p + Len(x.sequence)}
                          ELSE {}
         IN  UNION {sequence_ends(g, w, known, A, k, j + 1, stop, q) :
                       q \in next}

RECURSIVE derived_spans(_, _, _)
\* the triples (A, l, r) such that A derives w[l:r]
derived_spans(g, w, known) ==
    LET found == {s \in (DOMAIN g.rules) \X (0..Len(w)) \X (0..Len(w)) :
                     \E k \in AltIndices(g, s[1]) :
                         s[3] \in sequence_ends(g, w, known, s[1], k, 0,
                                                Len(Alt(g, s[1], k)), s[2])}
    IN  IF found \subseteq known THEN known
        ELSE derived_spans(g, w, known \cup found)

in_language(g, w) == <<g.start, 0, Len(w)>> \in derived_spans(g, w, {})

\* the ways A derives w[l:r]: the pairs of an alternative and the position
\* at which its last symbol starts
derivations_in(g, w, spans, A, l, r) ==
    {d \in AltIndices(g, A) \X (l..r) :
        /\ d[2] \in sequence_ends(g, w, spans, A, d[1], 0,
                                  Len(Alt(g, A, d[1])) - 1, l)
        /\ r \in sequence_ends(g, w, spans, A, d[1],
                               Len(Alt(g, A, d[1])) - 1,
                               Len(Alt(g, A, d[1])), d[2])}

derivations(g, w, A, l, r) ==
    derivations_in(g, w, derived_spans(g, w, {}), A, l, r)

start_node_keys(g, created_nodes) ==
    {key \in DOMAIN created_nodes :
        /\ key.is_nonterminal_node
        /\ key.slot.nonterminal = g.start
        /\ key.left_extent = 0}

\* C2: no result is set while the worklist is being processed; once it is
\* empty the parse succeeds, returning the node, if and only if created
\* holds a nonterminal node of the start nonterminal with extents
\* (0, |input|), and it fails otherwise, whatever shorter start nodes exist.
C2_OutcomeReadFromCreated ==
    /\ pc = "parsing" => result = None
    /\ pc = "done" =>
           /\ todo = <<>>
           /\ LET full == {key \in start_node_keys(Grammars[gid], created) :
                              key.right_extent = Len(text)}
              IN  IF full = {} THEN result = None
                  ELSE \E key \in full : result = created[key].node

\* a parse failed although a start node over a proper prefix was completed
C2_PrefixNodeFails ==
    /\ pc = "done"
    /\ result = None
    /\ \E key \in start_node_keys(Grammars[gid], created) :
           key.right_extent > 0 /\ key.right_extent < Len(text)

\* the main loop takes the next descriptor from todo
Dequeue ==
    /\ pc = "parsing"
    /\ todo # <<>>
    /\ dequeued < MaxDequeues
    /\ dequeued' = dequeued + 1

\* the constructor runs on: while todo holds a descriptor the loop comes to
\* take one, and with todo empty the final lookup is made
FairSpec == Spec /\ WF_dequeued(Dequeue) /\ WF_vars(Finish)

moved_to_front(q, i) ==
    <<q[i]>> \o SubSeq(q, 1, i - 1) \o SubSeq(q, i + 1, Len(q))

\* the parser state with the descriptor at index i of todo due next
due_next(i) == [ParserState EXCEPT !.todo = moved_to_front(todo, i)]

\* the order of todo carries no information when any descriptor can be
\* taken: the descriptors are kept in one fixed order
unordered(st) ==
    [st EXCEPT !.todo = SetToSeq({st.todo[i] : i \in DOMAIN st.todo})]

\* the attributes and the scanner after one iteration from st, todo being
\* kept without its order
iterates_unordered(def, st) ==
    \E order \in edge_orders(def, st) :
        becomes(unordered(loop_iteration(def, st, order)))

\* one iteration of the main loop that takes any descriptor of todo
StepAnyOrder ==
    /\ pc = "parsing"
    /\ todo # <<>>
    /\ dequeued < MaxDequeues
    /\ dequeued' = dequeued + 1
    /\ \E i \in DOMAIN todo :
         iterates_unordered(Definitions[gid], due_next(i))
    /\ UNCHANGED <<gid, text, result, int_sets>>

NextAnyOrder == StepAnyOrder \/ Finish

RECURSIVE run_fifo(_, _)
\* the state in which the main loop ends when descriptors are taken in
\* FIFO order and pop visits the edges in one fixed order
run_fifo(def, st) ==
    IF st.todo = <<>> \/ st.error # "" THEN st
    ELSE run_fifo(def,
                  loop_iteration(
                      def, st,
                      IF Head(st.todo).stack \in DOMAIN st.gss.edges
                      THEN SetToSeq(st.gss.edges[Head(st.todo).stack])
                      ELSE <<>>))

\* the descriptors the FIFO parse of w with grammar i makes
fifo_descriptors(i, w) ==
    run_fifo(Definitions[i], initial_state(Grammars[i], w)).seen_descriptors

\* a parser is constructed for one of the grammars and one of its inputs
\* whose parse makes few enough descriptors
InitAnyOrder ==
    \E i \in DOMAIN Grammars \ FurtherGrammars :
        \E w \in Inputs(Grammars[i]) :
            /\ Cardinality(fifo_descriptors(i, w)) <= MaxDescriptorsAnyOrder
            /\ constructed(i, w)

SpecAnyOrder == InitAnyOrder /\ [][NextAnyOrder]_vars

\* what identifies a child of a packed node: the key of an intermediate
\* node, a terminal node itself
child_key(node) ==
    IF node.kind = "intermediate" THEN node_key(node) ELSE node

\* the forest held by created: for every key the packed children of its
\* node, each with the keys of its children
sppf_of(created_nodes) ==
    [key \in DOMAIN created_nodes |->
        {[slot |-> packed_key.slot, split |-> packed_key.split,
          left |-> child_key(created_nodes[key].children[packed_key].left),
          right |-> child_key(created_nodes[key].children[packed_key].right)]
         : packed_key \in DOMAIN created_nodes[key].children}]

\* the outcome of the FIFO parse of the input
fifo_outcome ==
    run_fifo(Definitions[gid], initial_state(Grammars[gid], text))

\* C4: whatever the order in which descriptors are taken from todo and the
\* order in which pop visits the edges of a GSS node, the parse raises
\* nothing and ends with the accept/reject outcome and the forest (the keys
\* of created, each with the same packed children) of the FIFO parse.
C4_OrderIndependent ==
    /\ pc # "raised"
    /\ pc = "done" =>
           /\ sppf_of(created) = sppf_of(fifo_outcome.created)
           /\ (result = None) <=>
                  (final_result(Grammars[gid], text, fifo_outcome.created)
                       = None)

\* an accepting parse ended after popping nodes in another order than the
\* FIFO parse does
C4_AnotherOrderTaken ==
    /\ pc = "done"
    /\ result # None
    /\ popped # fifo_outcome.popped

\* the packed children of the node under key, each as the pair of its
\* alternative and its split
packed_derivations(created_nodes, key) ==
    {<<packed_key.slot.alternate, packed_key.split>> :
        packed_key \in DOMAIN created_nodes[key].children}

derives_alone(g, A) ==
    {B \in DOMAIN g.rules :
        \E k \in AltIndices(g, A) :
            \E j \in DOMAIN Alt(g, A, k) :
                /\ Alt(g, A, k)[j] = Nonterminal(B)
                /\ \A i \in DOMAIN Alt(g, A, k) \ {j} :
                       rule_is_nullable(<<Alt(g, A, k)[i]>>, nullables(g))}

RECURSIVE derives_alone_closure(_, _, _)
\* the nonterminals derived on their own, in any number of steps, from
\* those of frontier
derives_alone_closure(g, frontier, visited) ==
    IF frontier \subseteq visited THEN visited
    ELSE derives_alone_closure(
             g, UNION {derives_alone(g, A) : A \in frontier \ visited},
             visited \cup frontier)

\* whether some nonterminal derives itself in one step or more
cyclic(g) ==
    \E A \in DOMAIN g.rules :
        A \in derives_alone_closure(g, derives_alone(g, A), {})

\* the keys of the intermediate nodes that are children of the packed
\* nodes under key
child_keys(created_nodes, key) ==
    UNION {{node_key(n) :
               n \in {m \in {created_nodes[key].children[packed_key].left,
                             created_nodes[key].children[packed_key].right} :
                         m.kind = "intermediate"}}
           : packed_key \in DOMAIN created_nodes[key].children}

RECURSIVE reachable_keys(_, _, _)
reachable_keys(created_nodes, frontier, visited) ==
    IF frontier \subseteq visited THEN visited
    ELSE reachable_keys(
             created_nodes,
             UNION {child_keys(created_nodes, key) :
                       key \in frontier \ visited},
             visited \cup frontier)

\* the keys reached from key along one child edge or more
descendants(created_nodes, key) ==
    reachable_keys(created_nodes, child_keys(created_nodes, key), {})

\* no node of the forest under the node returned is its own descendant
returned_forest_acyclic ==
    \A key \in {node_key(result)} \cup descendants(created, node_key(result)) :
        key \notin descendants(created, key)

C7_ExtentsOrdered ==
    /\ \A node \in terminal_nodes :
           /\ node.left_extent <= node.right_extent
           /\ node.right_extent <= Len(text)
    /\ \A key \in DOMAIN created :
           /\ created[key].node.left_extent <= created[key].node.right_extent
           /\ created[key].node.right_extent <= Len(text)
           /\ \A packed_key \in DOMAIN created[key].children :
                  LET packed == created[key].children[packed_key]
                  IN  /\ created[key].node.left_extent <= packed.split
                      /\ packed.split <= created[key].node.right_extent
                      /\ packed.left # None =>
                             /\ packed.left.left_extent
                                    = created[key].node.left_extent
                             /\ packed.left.right_extent = packed.split
                      /\ packed.right.left_extent = packed.split
                      /\ packed.right.right_extent
                             = created[key].node.right_extent

\* a packed node with two children and a split strictly inside its span
\* has been built
C7_InnerSplitBuilt ==
    \E key \in DOMAIN created :
        \E packed_key \in DOMAIN created[key].children :
            /\ created[key].children[packed_key].left # None
            /\ key.left_extent < packed_key.split
            /\ packed_key.split < key.right_extent

\* C8: for S -> 'a' S | 'b' | 'c' with 'a' tagged not_follow {'b'}, the
\* check runs with the scanner just after the 'a': 'c', 'ac', 'aac' and
\* 'b' are accepted and 'ab', 'aab' and 'aaab' are rejected.
C8_NotFollowOnTerminal ==
    (pc = "done" /\ gid = 9) =>
        /\ text \in {<<"c">>, <<"a", "c">>, <<"a", "a", "c">>, <<"b">>}
               => result # None
        /\ text \in {<<"a", "b">>, <<"a", "a", "b">>,
                     <<"a", "a", "a", "b">>}
               => result = None

\* C9: for S -> A S | B | C with A tagged not_follow {'b'}, pop evaluates
\* the in-pop check registered against the slot of c_u and adds the return
\* descriptor only if it passes: 'c', 'ac', 'aac' and 'b' are accepted and
\* 'ab', 'aab' and 'aaab' are rejected.
C9_NotFollowOnNonterminal ==
    (pc = "done" /\ gid = 10) =>
        /\ text \in {<<"c">>, <<"a", "c">>, <<"a", "a", "c">>, <<"b">>}
               => result # None
        /\ text \in {<<"a", "b">>, <<"a", "a", "b">>,
                     <<"a", "a", "a", "b">>}
               => result = None

C11_RestrictionVetoes ==
    (pc = "done" /\ gid \in {16, 17}) =>
        /\ \A name \in DOMAIN Definitions[gid].ambiguity_checks :
               emulate_pop_check(Definitions[gid], ParserState,
                                 name).raises = ""
        /\ result # None <=> text \in {<<"x", "c", "y">>,
                                       <<"x", "c", "c", "c", "y">>}

\* ---------------------------------------------------------------------
\* The grammar analysis and the generator, called on a family of grammars
\* ---------------------------------------------------------------------

\* the longest alternative of the family
MaxAlternativeLen == 2

\* the symbols of the family's alternatives; B is a nonterminal without a
\* rule
AnalysisSymbols == {ta, Empty, nS, nA, nB}

AnalysisAlternatives == SeqsUpTo(AnalysisSymbols, MaxAlternativeLen)

\* the tag maps handed to generate_parser: none, one at the first symbol of
\* S, three whose key is no position of any grammar of the family, a
\* follow and a restriction tag, and one with the same tag at two positions
AnalysisTags ==
    {<<>>,
     <<Tag("S", 0, 0, "not_follow", <<tb>>)>>,
     <<Tag("S", 0, 0, "follow", <<tb>>)>>,
     <<Tag("S", 0, 1, "restriction", <<ta>>)>>,
     <<Tag("S", 0, 0, "not_follow", <<tb>>),
       Tag("S", 0, 1, "not_follow", <<tb>>)>>,
     <<Tag("S", 0, MaxAlternativeLen + 3, "not_follow", <<tb>>)>>,
     <<Tag("A", 3, 0, "not_precede", <<ta>>)>>,
     <<Tag("B", 0, 0, "not_follow", <<tb>>)>>}

\* ContextFreeGrammar(start, rules) with the rules S -> id.s and A -> id.a
grammar_of(id) ==
    [start |-> "S", order |-> <<"S", "A">>,
     rules |-> [S |-> <<id.s>>, A |-> <<id.a>>],
     tags |-> <<>>, alphabet |-> {"a"}, extra |-> {}]

\* a grammar is constructed; no parser exists
InitAnalysis ==
    /\ gid \in [s : AnalysisAlternatives, a : AnalysisAlternatives]
    /\ text = <<>>
    /\ holds([todo |-> <<>>, seen_descriptors |-> {}, popped |-> EmptyFn,
              gss |-> [edges |-> EmptyFn, edge_labels |-> EmptyFn],
              created |-> EmptyFn, terminal_nodes |-> {},
              c_u |-> root, c_n |-> None, c_r |-> None, position |-> 0])
    /\ pc = "grammar"
    /\ result = None
    /\ dequeued = 0
    /\ int_sets = NoIntSets

\* the call returns or raises; what it gave is kept in result
called(outcome) ==
    /\ pc = "grammar"
    /\ pc' = "called"
    /\ result' = outcome
    /\ UNCHANGED <<gid, text, todo, seen_descriptors, popped, gss, created,
                   terminal_nodes, c_u, c_n, c_r, position, dequeued,
                   int_sets>>

\* grammar.first(x)
first_outcome(g, x) ==
    [call |-> "first", symbol |-> x,
     raises |-> first_raises(first_mapping(g), x),
     value |-> IF first_raises(first_mapping(g), x) THEN {}
               ELSE first(first_mapping(g), x)]

CallFirst == \E x \in AnalysisSymbols : called(first_outcome(grammar_of(gid), x))

\* grammar.test_for_sequence(A, k, index)
test_for_sequence_outcome(g, A, k, index) ==
    [call |-> "test_for_sequence", nonterminal |-> A, alternate |-> k,
     index |-> index,
     raises |-> test_for_sequence_raises(g, first_mapping(g), A, k, index),
     value |-> IF test_for_sequence_raises(g, first_mapping(g), A, k, index)
               THEN {}
               ELSE test_for_sequence(
                        g, first_mapping(g),
                        build_follow_mapping(g, first_mapping(g)),
                        A, k, index)]

CallTestForSequence ==
    \E A \in DOMAIN grammar_of(gid).rules :
        \E index \in 0..Len(Alt(grammar_of(gid), A, 0)) :
            called(test_for_sequence_outcome(grammar_of(gid), A, 0, index))

\* ContextFreeGrammar.compute_gll_blocks(alternate), as a list
compute_gll_blocks_outcome(alternate) ==
    [call |-> "compute_gll_blocks", alternate |-> alternate,
     raises |-> FALSE, value |-> compute_gll_blocks(alternate)]

CallComputeGllBlocks ==
    \E A \in DOMAIN grammar_of(gid).rules :
        called(compute_gll_blocks_outcome(Alt(grammar_of(gid), A, 0)))

\* generate_parser(name, grammar, tags); of the definition it returns, the
\* declared ambiguity checks are kept
generate_parser_outcome(g) ==
    [call |-> "generate_parser", tags |-> g.tags,
     raises |-> generate_parser_raises(g),
     value |-> IF generate_parser_raises(g) THEN EmptyFn
               ELSE generate_parser(g).ambiguity_checks]

CallGenerateParser ==
    \E tags \in AnalysisTags :
        called(generate_parser_outcome(
                   [grammar_of(gid) EXCEPT !.tags = tags]))

NextAnalysis ==
    \/ CallFirst
    \/ CallTestForSequence
    \/ CallComputeGllBlocks
    \/ CallGenerateParser

SpecAnalysis == InitAnalysis /\ [][NextAnalysis]_vars

\* whether a right-hand side of the grammar holds a nonterminal without a
\* rule
references_undefined_nonterminal(g) ==
    \E o \in Occurrences(g) :
        g.rules[o.lhs][o.k][o.i].name \notin DOMAIN g.rules

\* whether the key of a tag is a position 0..|alternative| of an
\* alternative of the grammar
is_slot_position(g, t) ==
    /\ t.nonterminal \in DOMAIN g.rules
    /\ t.alternate + 1 \in DOMAIN g.rules[t.nonterminal]
    /\ t.position \in 0..Len(Alt(g, t.nonterminal, t.alternate))

\* C12: generate_parser raises whenever the grammar references a
\* nonterminal that has no rule, and whenever the tag map holds a key that
\* is not a slot position of the grammar: such a tag is never ignored.
C12_GenerationFailsEagerly ==
    (pc = "called" /\ result.call = "generate_parser") =>
        /\ references_undefined_nonterminal(grammar_of(gid)) => result.raises
        /\ (\E i \in DOMAIN result.tags :
                ~is_slot_position(grammar_of(gid), result.tags[i]))
               => result.raises

\* the first half of C12 alone
C12_UndefinedNonterminalRaises ==
    (pc = "called" /\ result.call = "generate_parser") =>
        (references_undefined_nonterminal(grammar_of(gid)) => result.raises)

\* C13: for a grammar whose nonterminals all have rules and a nonterminal
\* A, first(A) returns a set that holds Empty if and only if A is in
\* nullables.
C13_EmptyInFirstIffNullable ==
    (/\ pc = "called"
     /\ result.call = "first"
     /\ result.symbol.kind = "nonterminal"
     /\ ~references_undefined_nonterminal(grammar_of(gid))
     /\ result.symbol.name \in DOMAIN grammar_of(gid).rules) =>
        /\ ~result.raises
        /\ Empty \in result.value
               <=> result.symbol.name \in nullables(grammar_of(gid))

\* one direction of C13: the set first returns for a nullable nonterminal
\* holds Empty
C13_NullableHasEmptyInFirst ==
    (/\ pc = "called"
     /\ result.call = "first"
     /\ result.symbol.kind = "nonterminal"
     /\ ~references_undefined_nonterminal(grammar_of(gid))
     /\ result.symbol.name \in nullables(grammar_of(gid))) =>
        ~result.raises /\ Empty \in result.value

\* C14: for a grammar whose nonterminals all have rules and a position
\* (A, k, j) with 0 <= j <= |alternative k|, test_for_sequence raises
\* nothing and returns a non-empty set of terminals.
C14_TestSetNonEmpty ==
    (/\ pc = "called"
     /\ result.call = "test_for_sequence"
     /\ ~references_undefined_nonterminal(grammar_of(gid))) =>
        /\ ~result.raises
        /\ result.value # {}
        /\ \A x \in result.value : is_terminal(x)

RECURSIVE concatenation(_)
\* the blocks of a list, joined
concatenation(blocks) ==
    IF blocks = <<>> THEN <<>>
    ELSE Head(blocks).block \o concatenation(Tail(blocks))

\* zero or more terminals followed by one nonterminal
is_nonterminal_block(block) ==
    /\ block # <<>>
    /\ ~is_terminal(block[Len(block)])
    /\ \A i \in 1..(Len(block) - 1) : is_terminal(block[i])

\* one or more terminals
is_terminal_block(block) ==
    block # <<>> /\ \A i \in DOMAIN block : is_terminal(block[i])

\* the properties of C15 but the first: the blocks follow one another from
\* position 0, their concatenation is the alternative, every block but an
\* empty tail has one of the two shapes, and the list ends with an empty
\* block at |alternative| if and only if the alternative ends with a
\* nonterminal
blocks_partition(alternate, blocks) ==
    /\ \A i \in DOMAIN blocks :
           blocks[i].index = IF i = 1 THEN 0
                             ELSE blocks[i - 1].index
                                  + Len(blocks[i - 1].block)
    /\ concatenation(blocks) = alternate
    /\ \A i \in DOMAIN blocks :
           \/ is_nonterminal_block(blocks[i].block)
           \/ is_terminal_block(blocks[i].block)
           \/ i = Len(blocks) /\ blocks[i].block = <<>>
    /\ \A i \in DOMAIN blocks :
           is_terminal_block(blocks[i].block) => i = Len(blocks)
    /\ (blocks # <<>> /\ blocks[Len(blocks)] =
                             [index |-> Len(alternate), block |-> <<>>])
           <=> (alternate # <<>> /\ ~is_terminal(alternate[Len(alternate)]))

\* C15: for every alternative, the sequence of length 0 included,
\* compute_gll_blocks yields a non-empty list of blocks that follow one
\* another, whose concatenation is the alternative, each of one of the two
\* shapes, with an empty tail block exactly after a final nonterminal.
C15_BlocksPartitionAlternative ==
    (pc = "called" /\ result.call = "compute_gll_blocks") =>
        /\ result.value # <<>>
        /\ blocks_partition(result.alternate, result.value)

\* C15 for the alternatives that hold a symbol
C15_BlocksOfNonEmptyAlternative ==
    (/\ pc = "called"
     /\ result.call = "compute_gll_blocks"
     /\ result.alternate # <<>>) =>
        /\ result.value # <<>>
        /\ blocks_partition(result.alternate, result.value)

\* ---------------------------------------------------------------------
\* IntSet (util/algorithms/int_sets.py)
\* ---------------------------------------------------------------------

\* the universe of the sets is (0, MaxUniverse)
MaxUniverse == 3

\* the longest list of ranges a set is constructed from
MaxRanges == 3

universe == <<0, MaxUniverse>>

\* the ranges (start, stop) inside the universe
Ranges == {r \in (0..MaxUniverse) \X (0..MaxUniverse) : r[1] <= r[2]}

\* the lists of ranges a set is constructed from: any order, with
\* overlaps, duplicates and adjacent ranges
RangeLists == SeqsUpTo(Ranges, MaxRanges)

\* a variant of are_adjacent that never holds
are_adjacent_never(start, stop, other_start, other_stop) == FALSE

\* are_adjacent of __union
are_adjacent(start, stop, other_start, other_stop) ==
    stop + 1 = other_start \/ other_stop + 1 = start

RECURSIVE union_pass(_, _, _, _, _)
\* the for loop of __union over ranges[1:]: the new list and whether a
\* range was merged into (start, stop)
union_pass(others, start, stop, new_ranges, changed) ==
    IF others = <<>>
    THEN [ranges |-> Append(new_ranges, <<start, stop>>),
          changed |-> changed]
    ELSE LET other_start == Head(others)[1]
             other_stop == Head(others)[2]
             are_disjoint == stop < other_start \/ start > other_stop
         IN  IF are_disjoint
                /\ ~are_adjacent(start, stop, other_start, other_stop)
             THEN union_pass(Tail(others), start, stop,
                             Append(new_ranges, Head(others)), changed)
             ELSE union_pass(Tail(others), Min(start, other_start),
                             Max(stop, other_stop), new_ranges, TRUE)

RECURSIVE union_loop(_, _, _)
\* the while loop of __union
union_loop(ranges, n, not_changed) ==
    IF Len(ranges) > 1
    THEN LET pass == union_pass(Tail(ranges), ranges[1][1], ranges[1][2],
                                <<>>, FALSE)
             count == IF pass.changed THEN 0 ELSE not_changed + 1
         IN  IF count >= n THEN pass.ranges
             ELSE union_loop(pass.ranges, n, count)
    ELSE ranges

\* IntSet.__union
IntSet_union(ranges) == union_loop(ranges, Len(ranges), 0)

\* the order of Python on pairs of integers
tuple_less(a, b) == a[1] < b[1] \/ (a[1] = b[1] /\ a[2] < b[2])

\* sorted(ranges)
sorted(ranges) == SortSeq(ranges, tuple_less)

\* IntSet(content, universe)
IntSet(content, u) ==
    [content |-> sorted(IntSet_union(content)), universe |-> u]

\* IntSet.empty_set
empty_set(u) == IntSet(<<>>, u)

\* IntSet.empty
empty(self) == self.content = <<>>

RECURSIVE intersections_with(_, _)
\* the inner loop of __and__ for one range of self
intersections_with(r, other_ranges) ==
    IF other_ranges = <<>> THEN <<>>
    ELSE LET o == Head(other_ranges)
         IN  (IF r[1] > o[2] \/ o[1] > r[2] THEN <<>>
              ELSE << <<Max(r[1], o[1]), Min(r[2], o[2])>> >>)
             \o intersections_with(r, Tail(other_ranges))

RECURSIVE intersections(_, _)
\* the list intersections of __and__
intersections(self_ranges, other_ranges) ==
    IF self_ranges = <<>> THEN <<>>
    ELSE intersections_with(Head(self_ranges), other_ranges)
         \o intersections(Tail(self_ranges), other_ranges)

\* IntSet.__and__
IntSet_and(self, other) ==
    IF empty(self) THEN self
    ELSE IntSet(IntSet_union(intersections(self.content, other.content)),
                self.universe)

\* IntSet.__or__
IntSet_or(self, other) ==
    IF empty(self) THEN other
    ELSE IntSet(IntSet_union(self.content \o other.content), self.universe)

\* IntSet.__complement
IntSet_complement(self, start, stop) ==
    IF <<start, stop>> = self.universe THEN IntSet(<<>>, self.universe)
    ELSE IF empty(self) THEN IntSet(<<self.universe>>, self.universe)
    ELSE IF start = self.universe[1]
    THEN IntSet(<< <<stop + 1, self.universe[2]>> >>, self.universe)
    ELSE IF stop = self.universe[2]
    THEN IntSet(<< <<self.universe[1], start - 1>> >>, self.universe)
    ELSE IntSet(<< <<self.universe[1], start - 1>>,
                   <<stop + 1, self.universe[2]>> >>, self.universe)

RECURSIVE reduce_and(_, _)
\* functools.reduce(lambda x, y: x & y, individual_sets, initial)
reduce_and(individual_sets, initial) ==
    IF individual_sets = <<>> THEN initial
    ELSE reduce_and(Tail(individual_sets),
                    IntSet_and(initial, Head(individual_sets)))

\* IntSet.__invert__
IntSet_invert(self) ==
    reduce_and([i \in DOMAIN self.content |->
                   IntSet_complement(self, self.content[i][1],
                                     self.content[i][2])],
               IntSet(<<self.universe>>, self.universe))

\* IntSet.__sub__
IntSet_sub(self, other) == IntSet_and(self, IntSet_invert(other))

\* IntSet.__eq__
IntSet_eq(self, other) ==
    self.universe = other.universe /\ self.content = other.content

\* p = IntSet(content, universe) for a list of ranges, and
\* q = IntSet.empty_set(universe); no grammar and no parser exist
InitIntSets ==
    /\ gid = 0
    /\ text = <<>>
    /\ holds([todo |-> <<>>, seen_descriptors |-> {}, popped |-> EmptyFn,
              gss |-> [edges |-> EmptyFn, edge_labels |-> EmptyFn],
              created |-> EmptyFn, terminal_nodes |-> {},
              c_u |-> root, c_n |-> None, c_r |-> None, position |-> 0])
    /\ pc = "int_sets"
    /\ result = None
    /\ dequeued = 0
    /\ \E content \in RangeLists :
           int_sets = [p |-> IntSet(content, universe),
                       q |-> empty_set(universe),
                       last |-> [call |-> "empty_set", content |-> <<>>]]

\* the sets p and q become the given ones by the call named
assigned(new_p, new_q, call, content) ==
    /\ pc = "int_sets"
    /\ int_sets' = [p |-> new_p, q |-> new_q,
                    last |-> [call |-> call, content |-> content]]
    /\ UNCHANGED <<gid, text, todo, seen_descriptors, popped, gss, created,
                   terminal_nodes, c_u, c_n, c_r, position, pc, result,
                   dequeued>>

\* q = IntSet(content, universe), once, before any operation
Construct ==
    /\ int_sets.last.call = "empty_set"
    /\ \E content \in RangeLists :
           assigned(int_sets.p, IntSet(content, universe), "IntSet", content)

\* p = p | q  or  p = q | p
Or ==
    \/ assigned(IntSet_or(int_sets.p, int_sets.q), int_sets.q, "or", <<>>)
    \/ assigned(IntSet_or(int_sets.q, int_sets.p), int_sets.q, "or", <<>>)

\* p = p & q  or  p = q & p
And ==
    \/ assigned(IntSet_and(int_sets.p, int_sets.q), int_sets.q, "and", <<>>)
    \/ assigned(IntSet_and(int_sets.q, int_sets.p), int_sets.q, "and", <<>>)

\* p = ~p  or  q = ~q
Invert ==
    \/ assigned(IntSet_invert(int_sets.p), int_sets.q, "invert", <<>>)
    \/ assigned(int_sets.p, IntSet_invert(int_sets.q), "invert", <<>>)

\* p = p - q  or  p = q - p
Sub ==
    \/ assigned(IntSet_sub(int_sets.p, int_sets.q), int_sets.q, "sub", <<>>)
    \/ assigned(IntSet_sub(int_sets.q, int_sets.p), int_sets.q, "sub", <<>>)

NextIntSets == Construct \/ Or \/ And \/ Invert \/ Sub

SpecIntSets == InitIntSets /\ [][NextIntSets]_vars

\* the integers of a list of ranges
elements(ranges) == UNION {ranges[i][1]..ranges[i][2] : i \in DOMAIN ranges}

\* sorted by start, no two ranges overlapping, no two adjacent
canonical(ranges) ==
    /\ \A i \in DOMAIN ranges : ranges[i] \in Ranges
    /\ \A i \in DOMAIN ranges :
           \A j \in DOMAIN ranges :
               i < j => ranges[i][2] + 1 < ranges[j][1]

\* C16: the range list of an IntSet constructed from any list of ranges
\* of the universe, or returned by a union, an intersection, a complement
\* or a difference of such sets, is sorted by start and has no two
\* overlapping and no two adjacent ranges; two IntSets that hold the same
\* integers have the same range list and compare equal; p | q equals q | p.
C16_RangesCanonical ==
    pc = "int_sets" =>
        /\ canonical(int_sets.p.content)
        /\ canonical(int_sets.q.content)
        /\ elements(int_sets.p.content) = elements(int_sets.q.content)
               => /\ int_sets.p.content = int_sets.q.content
                  /\ IntSet_eq(int_sets.p, int_sets.q)
        /\ IntSet_eq(IntSet_or(int_sets.p, int_sets.q),
                     IntSet_or(int_sets.q, int_sets.p))

\* a set was constructed from ranges out of order, adjacent and
\* overlapping, that merge into one, and equals the other set
C16_MergedFromUnsorted ==
    /\ pc = "int_sets"
    /\ int_sets.last = [call |-> "IntSet",
                        content |-> << <<3, 3>>, <<0, 1>>, <<1, 2>> >>]
    /\ int_sets.q.content = << <<0, 3>> >>
    /\ int_sets.p.content = << <<0, 3>> >>

RECURSIVE slots_of(_, _)
\* the number of slots of the alternatives (A, k) of a set
slots_of(g, alternatives) ==
    IF alternatives = {} THEN 0
    ELSE LET x == CHOOSE y \in alternatives : TRUE
         IN  Len(g.rules[x[1]][x[2]]) + 1 + slots_of(g, alternatives \ {x})

\* |G|: the number of slots of the grammar's alternatives
grammar_size(g) ==
    slots_of(g, UNION {{<<A, k>> : k \in DOMAIN g.rules[A]}
                       : A \in DOMAIN g.rules})

\* C17: in a parse of an input of length n under a grammar of size |G|,
\* the terminal-node table and created hold at most |G| * (n+1)^2 entries
\* each and seen holds at most |G|^2 * (n+1)^3 descriptors, because every
\* key is made of slots of the grammar and of positions 0..n: the extents
\* of a node satisfy 0 <= left <= right <= n, and a descriptor's stack
\* position is at most its position, which is at most n.
C17_TablesBounded ==
    pc \in {"parsing", "done"} =>
        LET n == Len(text)
            size == grammar_size(Grammars[gid])
        IN  /\ \A node \in terminal_nodes :
                   /\ 0 <= node.left_extent
                   /\ node.left_extent <= node.right_extent
                   /\ node.right_extent <= n
            /\ Cardinality(terminal_nodes) <= size * (n + 1) * (n + 1)
            /\ \A key \in DOMAIN created :
                   /\ 0 <= key.left_extent
                   /\ key.left_extent <= key.right_extent
                   /\ key.right_extent <= n
                   /\ key.slot.nonterminal \in DOMAIN Grammars[gid].rules
            /\ Cardinality(DOMAIN created) <= size * (n + 1) * (n + 1)
            /\ \A d \in seen_descriptors :
                   /\ 0 <= d.stack.position
                   /\ d.stack.position <= d.position
                   /\ d.position <= n
            /\ Cardinality(seen_descriptors)
                   <= size * size * (n + 1) * (n + 1) * (n + 1)

\* a parse of an input of the greatest length has ended with tables that
\* hold more entries than the grammar has slots
C17_TablesFilled ==
    /\ pc = "done"
    /\ Len(text) = MaxLen
    /\ Cardinality(terminal_nodes) >= MaxLen
    /\ Cardinality(DOMAIN created) > grammar_size(Grammars[gid])
    /\ Cardinality(seen_descriptors) > grammar_size(Grammars[gid])

\* the descriptors of a list
descriptors_of(queue) == {queue[i] : i \in DOMAIN queue}

\* what one call of add does to the state of the parse: nothing for a
\* descriptor of seen, and for another one it is put into seen and at the
\* end of todo; stated for the descriptors of seen and for those one
\* position further
add_adds_once ==
    \A d \in seen_descriptors \cup
             {[e EXCEPT !.position = @ + 1] : e \in seen_descriptors} :
        LET after == add(ParserState, d.slot, d.stack, d.position, d.node)
        IN  IF d \in seen_descriptors
            THEN after = ParserState
            ELSE /\ after.seen_descriptors = seen_descriptors \cup {d}
                 /\ after.todo = Append(todo, d)

\* C18: in a parse every descriptor of todo is in seen, each descriptor of
\* seen has been appended to todo once (seen holds as many descriptors as
\* were taken from todo or wait in it, and todo holds none twice), an
\* iteration of the main loop removes nothing from seen and appends to
\* todo no descriptor that was in seen, and an add of a descriptor of seen
\* leaves todo and seen unchanged.
C18_SeenGuardsTodo ==
    /\ [](pc \in {"parsing", "done"} =>
            /\ descriptors_of(todo) \subseteq seen_descriptors
            /\ Cardinality(descriptors_of(todo)) = Len(todo)
            /\ Cardinality(seen_descriptors) = dequeued + Len(todo)
            /\ add_adds_once)
    /\ [][pc = "parsing" =>
            /\ seen_descriptors \subseteq seen_descriptors'
            /\ descriptors_of(todo') \cap seen_descriptors
                   \subseteq descriptors_of(todo)]_vars

\* in a parse under way add, create and pop have been called: descriptors
\* were taken from todo, others wait in it, nodes were popped and the GSS
\* has edges
C18_DescriptorsWaiting ==
    /\ pc = "parsing"
    /\ dequeued >= 2
    /\ Len(todo) >= 2
    /\ DOMAIN popped # {}
    /\ \E ref \in DOMAIN gss.edges : gss.edges[ref] # {}

\* the descriptor that returns node z, popped from ref, along the edge
\* from ref to u: (ref.slot, u, z.right_extent, getNodeP(ref.slot, label, z))
return_descriptor(ref, u, z) ==
    Descriptor(ref.slot, u, z.right_extent,
               get_node_p(ParserState, ref.slot,
                          gss.edge_labels[<<ref, u>>], z).ret)

\* C19: when the parse has ended, for every GSS edge from ref to u and
\* every node z in popped[ref], seen holds the descriptor
\* (ref.slot, u, z.right_extent, getNodeP(ref.slot, label, z)), whether
\* the edge or the pop came first.
C19_PopsAndEdgesMeet ==
    pc = "done" =>
        \A ref \in DOMAIN gss.edges :
            \A u \in gss.edges[ref] :
                ref \in DOMAIN popped =>
                    \A i \in DOMAIN popped[ref] :
                        return_descriptor(ref, u, popped[ref][i])
                            \in seen_descriptors

\* a parse has ended with a GSS node that has two edges and from which two
\* nodes were popped
C19_TwoEdgesTwoPops ==
    /\ pc = "done"
    /\ \E ref \in DOMAIN gss.edges \cap DOMAIN popped :
           /\ Cardinality(gss.edges[ref]) >= 2
           /\ Len(popped[ref]) >= 2

\* the slots of the parser of the run
slots_of_run ==
    {definition_to_slot(Definitions[gid].grammar_slots[name]) :
        name \in DOMAIN Definitions[gid].grammar_slots}

\* the nodes get_node_p is called with as left: c_n and the edge labels
left_nodes ==
    {n \in {c_n} \cup {gss.edge_labels[e] : e \in DOMAIN gss.edge_labels} :
        n.kind \in {"initial", "terminal", "intermediate"}}

\* the nodes get_node_p is called with as right: c_r, c_n and the nodes
\* popped
right_nodes ==
    {n \in {c_r, c_n}
           \cup UNION {{popped[ref][i] : i \in DOMAIN popped[ref]}
                       : ref \in DOMAIN popped} :
        n.kind \in {"terminal", "intermediate"}}

\* what C20 says of one call of get_node_p
get_node_p_contract(slot, left, right) ==
    LET after == get_node_p(ParserState, slot, left, right)
    IN  IF slot.alpha_is_special /\ ~slot.beta_is_special
        THEN /\ after.ret = right
             /\ after.created = created
        ELSE /\ after.ret.kind = "intermediate"
             /\ after.ret.left_extent = IF left.kind = "initial"
                                        THEN right.left_extent
                                        ELSE left.left_extent
             /\ after.ret.right_extent = right.right_extent
             /\ after.ret.is_nonterminal_node = slot.beta_is_special

\* C20: get_node_p(slot, left, right) with slot.alpha_is_special and not
\* slot.beta_is_special returns right and leaves created, with the packed
\* children of every node, unchanged; with another slot it returns an
\* intermediate node with the extents (left.left_extent,
\* right.right_extent), or (right.left_extent, right.right_extent) when
\* left is the Initial node, that is a nonterminal node exactly when
\* slot.beta_is_special.
C20_GetNodeP ==
    pc = "parsing" =>
        \A slot \in slots_of_run :
            \A left \in left_nodes :
                \A right \in right_nodes :
                    get_node_p_contract(slot, left, right)

\* a parse in which get_node_p can be called with a special slot and with
\* another one, with the Initial node and with another node as left, while
\* created holds nodes
C20_BothCasesCallable ==
    /\ pc = "parsing"
    /\ DOMAIN created # {}
    /\ \E slot \in slots_of_run :
           slot.alpha_is_special /\ ~slot.beta_is_special
    /\ \E slot \in slots_of_run : slot.beta_is_special
    /\ \E left \in left_nodes : left.kind = "initial"
    /\ \E left \in left_nodes : left.kind = "intermediate"
    /\ right_nodes # {}

\* the key C21 names for an intermediate node: its slot or, for a
\* completed node, its nonterminal, and its extents
canonical_key(node) ==
    [completed |-> node.is_nonterminal_node,
     nonterminal |-> node.slot.nonterminal,
     slot |-> IF node.is_nonterminal_node THEN NULL_SLOT ELSE node.slot,
     left_extent |-> node.left_extent, right_extent |-> node.right_extent]

\* a second call of get_node_p with the arguments of a first one returns
\* the node of the first call, the one held in created, and changes
\* neither created nor a map of packed children
get_node_p_idempotent(slot, left, right) ==
    LET once == get_node_p(ParserState, slot, left, right)
        twice == get_node_p(once, slot, left, right)
    IN  /\ twice.ret = once.ret
        /\ twice.created = once.created
        /\ (~(slot.alpha_is_special /\ ~slot.beta_is_special)) =>
               /\ node_key(once.ret) \in DOMAIN once.created
               /\ once.created[node_key(once.ret)].node = once.ret

\* C21: in every state of a parse created holds at most one intermediate
\* node per key (slot or, for completed nodes, nonterminal; left extent;
\* right extent), each intermediate node holds at most one packed child per
\* (slot, split), and a second call of get_node_p with the same arguments
\* returns the same node and changes neither created nor a map of packed
\* children.
C21_GetNodePCanonical ==
    pc \in {"parsing", "done"} =>
        /\ \A k1 \in DOMAIN created :
               \A k2 \in DOMAIN created :
                   canonical_key(created[k1].node)
                       = canonical_key(created[k2].node) => k1 = k2
        /\ \A key \in DOMAIN created :
               /\ node_key(created[key].node) = key
               /\ \A packed_key \in DOMAIN created[key].children :
                      /\ created[key].children[packed_key].slot
                             = packed_key.slot
                      /\ created[key].children[packed_key].split
                             = packed_key.split
        /\ pc = "parsing" =>
               \A slot \in slots_of_run :
                   \A left \in left_nodes :
                       \A right \in right_nodes :
                           get_node_p_idempotent(slot, left, right)

\* a completed node of created has two packed children, and get_node_p can
\* be called with arguments it was called with before: the call finds its
\* node and its packed child
C21_SecondCallPossible ==
    /\ pc = "parsing"
    /\ \E key \in DOMAIN created :
           /\ created[key].node.is_nonterminal_node
           /\ Cardinality(DOMAIN created[key].children) >= 2
    /\ \E slot \in slots_of_run :
           \E left \in left_nodes :
               \E right \in right_nodes :
                   /\ ~(slot.alpha_is_special /\ ~slot.beta_is_special)
                   /\ get_node_p(ParserState, slot, left, right).created
                          = created

\* an iteration of the main loop in which a disambiguate that evaluates to
\* false ends the function entered by goto: the state it leaves, and
\* whether a disambiguate failed
aborting_iteration(def, st, order) ==
    LET descriptor == Head(st.todo)
        restored == [st EXCEPT !.todo = Tail(@), !.c_n = descriptor.node,
                               !.c_u = descriptor.stack,
                               !.position = descriptor.position]
        name == slot_to_name(descriptor.slot)
        after == IF name \notin DOMAIN goto_table(def)
                 THEN [restored EXCEPT !.error = "KeyError"]
                 ELSE emulate_with("abort_function", def, restored,
                                   def.parse_functions[goto_table(def)[name]],
                                   order)
    IN  [aborted |-> after.error = "$abort",
         state |-> IF after.error = "$abort"
                   THEN [after EXCEPT !.error = ""] ELSE after]

\* C22: when a disambiguate evaluates to false while a parse function
\* runs, no statement after it in that function has an effect: the
\* iteration of the main loop leaves the state it leaves when the function
\* is ended at the failed check (no descriptor, GSS node or edge, SPPF node
\* or pop is added after it and the scanner stays where it was).
C22_FailedCheckAborts ==
    (pc = "parsing" /\ todo # <<>>) =>
        \A order \in edge_orders(Definitions[gid], ParserState) :
            loop_iteration(Definitions[gid], ParserState, order)
                = aborting_iteration(Definitions[gid], ParserState,
                                     order).state

\* the function of the descriptor due next runs into a disambiguate that
\* evaluates to false, after a statement of it has had an effect
C22_CheckFails ==
    /\ pc = "parsing"
    /\ todo # <<>>
    /\ \E order \in edge_orders(Definitions[gid], ParserState) :
           LET ended == aborting_iteration(Definitions[gid], ParserState,
                                           order)
           IN  /\ ended.aborted
               /\ ended.state.terminal_nodes # terminal_nodes

\* whether the table of ambiguity checks holds an in-pop check of the kind
\* and payload of the tag whose slot is the return slot (A, k, j + 1)
has_in_pop_check(checks, t) ==
    \E name \in DOMAIN checks :
        /\ checks[name].type = (IF t.kind = "restriction"
                                THEN "restriction" ELSE "follow")
        /\ checks[name].negated = (t.kind = "not_follow")
        /\ checks[name].literals = split_terminals(t.terminals)
        /\ as_pop_check(checks[name])
        /\ checks[name].slot
               = get_slot_name(t.nonterminal, t.alternate, t.position + 1,
                               FALSE)

\* whether the tag is a follow, not_follow or restriction tag at a
\* position of the grammar that holds a nonterminal
tags_nonterminal(g, t) ==
    /\ t.kind \in {"follow", "not_follow", "restriction"}
    /\ t.nonterminal \in DOMAIN g.rules
    /\ t.alternate + 1 \in DOMAIN g.rules[t.nonterminal]
    /\ t.position + 1 \in DOMAIN Alt(g, t.nonterminal, t.alternate)
    /\ ~is_terminal(Alt(g, t.nonterminal, t.alternate)[t.position + 1])

\* C23: for every follow, not_follow or restriction tag at a position
\* (A, k, j) that holds a nonterminal, the table of ambiguity checks of the
\* generated parser holds an in-pop check of that kind and payload whose
\* slot is the return slot (A, k, j + 1), for each tagged position
\* separately.
C23_InPopCheckPerPosition ==
    (pc = "called" /\ result.call = "generate_parser" /\ ~result.raises) =>
        \A i \in DOMAIN result.tags :
            tags_nonterminal(grammar_of(gid), result.tags[i])
                => has_in_pop_check(result.value, result.tags[i])

\* C23 for the tag maps that hold one tag
C23_InPopCheckOfSingleTag ==
    (/\ pc = "called"
     /\ result.call = "generate_parser"
     /\ ~result.raises
     /\ Len(result.tags) = 1) =>
        (tags_nonterminal(grammar_of(gid), result.tags[1])
             => has_in_pop_check(result.value, result.tags[1]))

\* C24: every slot carried by an enqueued descriptor has an entry in the
\* goto map that names a parse function, and no iteration of the main loop
\* fails to find the function of the descriptor it dequeues, also for
\* alternatives of length 0 and for alternatives that end in a nonterminal.
C24_GotoEntryForEveryDescriptor ==
    /\ \A d \in seen_descriptors :
           /\ slot_to_name(d.slot) \in DOMAIN goto_table(Definitions[gid])
           /\ goto_table(Definitions[gid])[slot_to_name(d.slot)]
                  \in DOMAIN Definitions[gid].parse_functions
    /\ (pc = "parsing" /\ todo # <<>>) =>
           \A order \in edge_orders(Definitions[gid], ParserState) :
               loop_iteration(Definitions[gid], ParserState, order).error
                   # "KeyError"

\* C24 for the grammars in which no alternative has length 0
C24_GotoEntryWithoutEmptyAlternative ==
    (\A A \in DOMAIN Grammars[gid].rules :
         \A k \in DOMAIN Grammars[gid].rules[A] :
             Grammars[gid].rules[A][k] # <<>>)
        => C24_GotoEntryForEveryDescriptor

\* the grammar without its tags
untagged(g) == [g EXCEPT !.tags = <<>>]

\* one of the orders in which the edges of a node may be visited: the
\* chosen one or, backwards, its reverse
edge_order(def, st, backwards) ==
    LET order == CHOOSE o \in edge_orders(def, st) : TRUE
    IN  IF backwards
        THEN [i \in DOMAIN order |-> order[Len(order) + 1 - i]]
        ELSE order

RECURSIVE parse_from(_, _, _, _)
\* the main loop of AbstractParser.parse run from a parser state until todo
\* is empty or an exception is raised, for at most fuel iterations
parse_from(def, st, backwards, fuel) ==
    IF st.error # "" \/ st.todo = <<>> \/ fuel = 0 THEN st
    ELSE parse_from(def,
                    loop_iteration(def, st, edge_order(def, st, backwards)),
                    backwards, fuel - 1)

\* whether AbstractParser.parse of the parser generated from the grammar
\* returns a root node for the text
accepts(g, w, backwards) ==
    /\ ~construction_raises(generate_parser(g))
    /\ LET final == parse_from(generate_parser(g), initial_state(g, w),
                               backwards, MaxDequeues)
       IN  /\ final.error = ""
           /\ final.todo = <<>>
           /\ final_result(g, w, final.created) # None

\* C25 (first half): if the parser generated with the tags accepts the
\* text then the parser generated from the same grammar with an empty tag
\* map accepts it, whatever the order in which it visits the edges.
C25_TaggedAcceptsImpliesUntaggedAccepts ==
    (pc = "done" /\ result # None /\ Grammars[gid].tags # <<>>) =>
        \A backwards \in BOOLEAN :
            accepts(untagged(Grammars[gid]), text, backwards)

\* a text the tagged parser rejects and the untagged parser accepts
C25_TagRemovesParse ==
    /\ pc = "done"
    /\ result = None
    /\ Grammars[gid].tags # <<>>
    /\ accepts(untagged(Grammars[gid]), text, FALSE)

\* C25: tags only remove parses, and the parser generated with an empty
\* tag map accepts texts that the tagged parser rejects because of a tag:
\* 'abdedc' is rejected by the parser of the advanced not-follow grammar
\* and accepted by the parser without the tags.
C25_TagsOnlyRemoveParses ==
    /\ C25_TaggedAcceptsImpliesUntaggedAccepts
    /\ (/\ pc = "done"
        /\ Grammars[gid] = GNotFollowAdvanced
        /\ text = <<"a", "b", "d", "e", "d", "c">>) =>
           /\ result = None
           /\ accepts(untagged(GNotFollowAdvanced), text, FALSE)

\* C26: a descriptor that returns to a slot with an in-pop follow check is
\* added only if the check passes at the position where the popped node
\* ends, whether pop or create produced the descriptor.
C26_InPopChecksGuardReturns ==
    \A d \in seen_descriptors :
        \A name \in get_ambiguity_checks_for_slot(Definitions[gid], d.slot) :
            Definitions[gid].ambiguity_checks[name].type = "follow" =>
                emulate_pop_check(Definitions[gid],
                                  [ParserState EXCEPT
                                       !.position = d.position],
                                  name).value

\* C27: whenever get_node_p finds a packed child under the key (slot,
\* split) of the intermediate node, the child found has the left and the
\* right child of the packed node the call would have made; stated for
\* every call of get_node_p that the next iteration of the main loop makes.
C27_PackedChildFoundIsSame ==
    (pc = "parsing" /\ todo # <<>>) =>
        \A order \in edge_orders(Definitions[gid], ParserState) :
            FALSE \notin loop_iteration(Definitions[gid], ParserState,
                                        order).repacked

\* the next iteration calls get_node_p for a packed child that exists
C27_PackedChildFound ==
    /\ pc = "parsing"
    /\ todo # <<>>
    /\ \E order \in edge_orders(Definitions[gid], ParserState) :
           TRUE \in loop_iteration(Definitions[gid], ParserState,
                                   order).repacked


\* C28: every descriptor made whose node is not the initial node has a node
\* that ends at the position of the descriptor and begins at the position
\* of its stack; a descriptor whose node is the initial node has the
\* position of its stack, or the root as its stack and the position 0.
C28_DescriptorExtents ==
    \A d \in seen_descriptors :
        IF d.node.kind # "initial"
        THEN /\ d.node.right_extent = d.position
             /\ d.node.left_extent = d.stack.position
        ELSE \/ d.position = d.stack.position
             \/ d.stack = root /\ d.position = 0

\* a descriptor made by create from a popped node that spans text, and a
\* descriptor made by pop, both with a stack that is not the root
C28_ReturnDescriptorsMade ==
    /\ \E d \in seen_descriptors :
           /\ d.node.kind # "initial"
           /\ d.stack # root
           /\ d.node.left_extent < d.node.right_extent
    /\ \E ref \in DOMAIN popped :
           \E i \in DOMAIN popped[ref] :
               popped[ref][i].left_extent < popped[ref][i].right_extent
    /\ \E d \in seen_descriptors :
           d.node.kind = "initial" /\ d.stack # root /\ d.position > 0


\* C29: whenever create(slot) is called while c_u is a successor of the
\* node (slot, position) already, c_n is the label stored on the edge;
\* stated for every call of create that the next iteration of the main
\* loop makes.
C29_EdgeLabelIsCurrentNode ==
    (pc = "parsing" /\ todo # <<>>) =>
        \A order \in edge_orders(Definitions[gid], ParserState) :
            FALSE \notin loop_iteration(Definitions[gid], ParserState,
                                        order).relabelled

\* the next iteration calls create for an edge that exists; no state of
\* Spec, SpecAnyOrder or SpecFurtherGrammars satisfies it
C29_EdgeFound ==
    /\ pc = "parsing"
    /\ todo # <<>>
    /\ \E order \in edge_orders(Definitions[gid], ParserState) :
           loop_iteration(Definitions[gid], ParserState,
                          order).relabelled # {}


\* the tables the descriptors share, the worklist and the exception raised
shared_tables(st) ==
    [todo |-> st.todo, seen_descriptors |-> st.seen_descriptors,
     popped |-> st.popped, gss |-> st.gss, created |-> st.created,
     terminal_nodes |-> st.terminal_nodes, error |-> st.error]

\* the nodes and the stacks that an iteration may leave in the registers
register_nodes ==
    {None, InitialNode(0, 0), c_n, c_r} \cup left_nodes \cup right_nodes

register_stacks == {root, c_u} \cup DOMAIN gss.edges

RECURSIVE node_p_follows_node_t(_)
\* whether every InvokeNodeP of the statements comes directly after an
\* InvokeNodeT that writes c_r, in the same list of statements
node_p_follows_node_t(instructions) ==
    \A i \in DOMAIN instructions :
        /\ instructions[i].op = "InvokeNodeP" =>
               /\ i > 1
               /\ instructions[i - 1].op = "InvokeNodeT"
               /\ instructions[i - 1].target = "CR"
        /\ instructions[i].op = "ConditionalCheck" =>
               node_p_follows_node_t(instructions[i].body)

\* C30: an iteration of the main loop does to the shared tables what the
\* descriptor it dequeues and the tables determine, whatever c_u, c_n, c_r
\* and the scanner position were before it; in every parse function c_r is
\* written by an InvokeNodeT before an InvokeNodeP reads it.
C30_IterationIgnoresRegisters ==
    /\ \A name \in DOMAIN Definitions[gid].parse_functions :
           node_p_follows_node_t(Definitions[gid].parse_functions[name])
    /\ (pc = "parsing" /\ todo # <<>>) =>
           \A order \in edge_orders(Definitions[gid], ParserState) :
               \A r \in register_nodes, n \in {None, c_r},
                  u \in register_stacks, p \in {0, Len(text)} :
                   shared_tables(
                       loop_iteration(Definitions[gid],
                                      [ParserState EXCEPT
                                           !.c_r = r, !.c_n = n,
                                           !.c_u = u, !.position = p],
                                      order))
                       = shared_tables(
                             loop_iteration(Definitions[gid], ParserState,
                                            order))

\* the next iteration finds a c_r left by an earlier one, writes another
\* and makes an intermediate node from it
C30_RegisterOverwritten ==
    /\ pc = "parsing"
    /\ todo # <<>>
    /\ c_r # None
    /\ c_n # Head(todo).node
    /\ c_u # Head(todo).stack
    /\ \E order \in edge_orders(Definitions[gid], ParserState) :
           LET after == loop_iteration(Definitions[gid], ParserState, order)
           IN  /\ after.c_r # c_r
               /\ after.created # created

====
